---- MODULE Spec2Model ----
(***************************************************************************)
(* A model of the Airbnb crawl orchestrator: the SEARCH and DETAIL request *)
(* handlers of src/src/dataStore.ts, the start-request construction and    *)
(* generatePriceShards of the entry script (src/unnamed/part_001), and     *)
(* chargeOrAbort of src/src/utils/charging.ts.                             *)
(*                                                                         *)
(* A handler is an async function: it runs without interruption from one   *)
(* await to the next, and other handlers run while it is suspended.  Every *)
(* action below is one such uninterrupted segment.  Adjacent awaits with   *)
(* no access to the shared state between them are one suspension.          *)
(***************************************************************************)
EXTENDS Integers, Sequences, FiniteSets, TLC

VARIABLES
    totalScrapedCount,  \* dataStore.ts:114
    totalPushedCount,   \* dataStore.ts:116
    scrapedListingIds,  \* dataStore.ts:118
    queue,              \* the crawler's pending requests
    queueKeys,          \* every uniqueKey the request queue has accepted
    tasks,              \* the running handlers, one per worker slot
    dataset,            \* records emitted by pushData: <<mode, id>> -> how often
    proc,               \* "running", or "exited" after process.exit(1)
    hist,               \* observation only: how often each id was kept by a
                        \* SEARCH task, and the run's maxListings
    pure                \* the call under study in the function-level specifications

crawlVars == <<totalScrapedCount, totalPushedCount, scrapedListingIds, queue,
               queueKeys, tasks, dataset, proc, hist>>
vars == <<totalScrapedCount, totalPushedCount, scrapedListingIds, queue,
          queueKeys, tasks, dataset, proc, hist, pure>>

(***************************************************************************)
(* Bounds of the model.                                                    *)
(***************************************************************************)
MaxListingId == 3       \* listing ids are 1..MaxListingId
MaxPageLen == 2         \* listings on one search page
MaxWorkers == 2         \* handlers running concurrently
MaxPage == 1            \* pagination requests followed per shard
MaxRetries == 0         \* retries of a request whose handler threw
MaxShardStart == 2      \* generatePriceShards: minPrice in 0..MaxShardStart
MaxShardWidth == 24     \* generatePriceShards: maxPrice - minPrice
MaxShardStep == 6       \* generatePriceShards: step in 1..MaxShardStep
MaxChargeCount == 3     \* chargeOrAbort: count in -1..MaxChargeCount

(***************************************************************************)
(* Values of the program.                                                  *)
(***************************************************************************)
Undefined == -1             \* an absent (undefined / null) userData field
NoAmount == -2              \* price null, or price.amount '' (no numeric token)
Infinity == 1000000000      \* effectiveMaxListings of an unlimited run
TruncationThreshold == 1000 \* totalCount >= 1000
MaxSplitDepth == 10         \* splitDepth < 10
MinShardWidth == 10         \* priceRange > 10
DefaultMinPrice == 0        \* request.userData.minPrice ?? 0
DefaultMaxPrice == 1000000  \* request.userData.maxPrice ?? 1000000

Min(a, b) == IF a <= b THEN a ELSE b

(***************************************************************************)
(* generatePriceShards (part_001:100-113): the for loop as a recursion.    *)
(***************************************************************************)
\* the loop without the clipping of the last interval
RECURSIVE ShardLoopUnclipped(_, _, _, _)
ShardLoopUnclipped(price, maxPrice, step, shards) ==
    IF price <= maxPrice
    THEN ShardLoopUnclipped(price + step, maxPrice, step,
                            Append(shards, [min |-> price, max |-> price + step - 1]))
    ELSE shards

RECURSIVE ShardLoop(_, _, _, _)
ShardLoop(price, maxPrice, step, shards) ==
    IF price <= maxPrice
    THEN ShardLoop(price + step, maxPrice, step,
                   Append(shards, [min |-> price,
                                   max |-> Min(price + step - 1, maxPrice)]))
    ELSE shards

generatePriceShards(minPrice, maxPrice, step) ==
    ShardLoop(minPrice, maxPrice, step, <<>>)

(***************************************************************************)
(* The two-tier price filter of the SEARCH listing loop                    *)
(* (dataStore.ts:281-303).  amount is the parsed price.amount; the windows *)
(* are userData fields, each possibly undefined.                           *)
(***************************************************************************)
insideShard(amount, shardMinP, shardMaxP) ==
    /\ (shardMinP = Undefined \/ amount >= shardMinP)
    /\ (shardMaxP = Undefined \/ amount <= shardMaxP)

insideGlobal(amount, gMinP, gMaxP) ==
    /\ (gMinP = Undefined \/ amount >= gMinP)
    /\ (gMaxP = Undefined \/ amount <= gMaxP)

\* the filter testing the shard's window where the code tests the global one
PriceFilterByShard(amount, shardMinP, shardMaxP, gMinP, gMaxP) ==
    IF amount # NoAmount /\ (gMinP # Undefined \/ gMaxP # Undefined)
          /\ ~insideShard(amount, shardMinP, shardMaxP)
    THEN "skip" ELSE "keep"

\* "skip": skippedCount++ and continue; otherwise the listing goes on to be kept.
PriceFilter(amount, shardMinP, shardMaxP, gMinP, gMaxP) ==
    IF amount # NoAmount /\ (gMinP # Undefined \/ gMaxP # Undefined)
    THEN IF ~insideGlobal(amount, gMinP, gMaxP) THEN "skip"
         ELSE IF ~insideShard(amount, shardMinP, shardMaxP) THEN "keepOutsideShard"
         ELSE "keep"
    ELSE "keep"

(***************************************************************************)
(* Dynamic splitting (dataStore.ts:191-205).  ud is request.userData.      *)
(***************************************************************************)
currentMinPrice(ud) == IF ud.minPrice = Undefined THEN DefaultMinPrice ELSE ud.minPrice
currentMaxPrice(ud) == IF ud.maxPrice = Undefined THEN DefaultMaxPrice ELSE ud.maxPrice
\* request.userData.splitDepth || 0
splitDepth(ud) == IF ud.splitDepth = Undefined THEN 0 ELSE ud.splitDepth
priceRange(ud) == currentMaxPrice(ud) - currentMinPrice(ud)

\* the decision without the depth limit
shouldDynamicSplitAnyDepth(totalCount, ud) ==
    /\ totalCount >= TruncationThreshold
    /\ priceRange(ud) > MinShardWidth

shouldDynamicSplit(totalCount, ud) ==
    /\ totalCount >= TruncationThreshold
    /\ splitDepth(ud) < MaxSplitDepth
    /\ priceRange(ud) > MinShardWidth

\* midPrice rounded up instead of down
midPriceCeil(ud) == (currentMinPrice(ud) + currentMaxPrice(ud) + 1) \div 2

midPrice(ud) == (currentMinPrice(ud) + currentMaxPrice(ud)) \div 2

shard1(ud) == [ud EXCEPT !.minPrice = currentMinPrice(ud),
                         !.maxPrice = midPrice(ud),
                         !.splitDepth = splitDepth(ud) + 1]
\* the upper child starting at midPrice itself
shard2FromMid(ud) == [ud EXCEPT !.minPrice = midPrice(ud),
                                !.maxPrice = currentMaxPrice(ud),
                                !.splitDepth = splitDepth(ud) + 1]

shard2(ud) == [ud EXCEPT !.minPrice = midPrice(ud) + 1,
                         !.maxPrice = currentMaxPrice(ud),
                         !.splitDepth = splitDepth(ud) + 1]

(***************************************************************************)
(* chargeOrAbort (charging.ts:10-37) as the positions of one call.         *)
(*   "charging"  suspended in  await Actor.charge(...)                     *)
(*   "failing"   suspended in  await Actor.fail(...)                       *)
(*   "returned"  the call returned normally to its caller                  *)
(*   "exited"    process.exit(1) was called                                *)
(***************************************************************************)
ChargeOutcomes == {"ok", "creditError", "otherError"}
FailOutcomes == {"returns", "throws"}

\* line 11: if (count <= 0) return;  else line 14 is awaited
ChargeEnter(count) == IF count <= 0 THEN "returned" ELSE "charging"
\* lines 13-15: Actor.charge resolved, or rejected with some error
ChargeSettled(outcome) == IF outcome = "ok" THEN "returned" ELSE "failing"
\* chargeOrAbort without the process.exit(1) of its inner catch
FailSettledNoExit(outcome) == IF outcome = "throws" THEN "returned" ELSE "exited"

\* lines 29-35: Actor.fail returned (line 35), or threw (line 33)
FailSettled(outcome) == "exited"


(***************************************************************************)
(* The crawl.                                                              *)
(***************************************************************************)
Ids == 1..MaxListingId
Modes == {"simple", "deep"}
Query == "London"           \* locationQueries = ['London'] (part_001:40)

\* The price the site shows for a listing (NoAmount: a card without a price,
\* as the DOM fallback of extractListingUrls yields, extractors.ts:318-323).
AmountOf(id) ==
    CASE id % 4 = 1 -> 30
      [] id % 4 = 2 -> 3
      [] id % 4 = 3 -> NoAmount
      [] OTHER -> 7

Listing(id) == [id |-> id, amount |-> AmountOf(id)]

\* Sequences of distinct listings: extractListingUrls drops in-page duplicates
\* (seenIds, extractors.ts:30, 106, 286) and counts them.
IsDistinct(s) == \A a, b \in 1..Len(s) : a < b => s[a].id < s[b].id

RECURSIVE DistinctSeqs(_)
DistinctSeqs(n) ==
    IF n = 0 THEN {<<>>}
    ELSE LET shorter == DistinctSeqs(n - 1)
             longest == {x \in shorter : Len(x) = n - 1}
         IN shorter \cup
            {x \in {Append(s, Listing(id)) : s \in longest, id \in Ids} : IsDistinct(x)}

\* What extractListingUrls returns (extractors.ts:330-334): totalCount is the
\* count found in the payload, or listings.length when none was found.
FoundCounts == {0, TruncationThreshold}
PageResults ==
    {[listings |-> s,
      totalCount |-> IF found = 0 THEN Len(s) ELSE found,
      duplicateCount |-> d] :
        s \in DistinctSeqs(MaxPageLen),
        found \in FoundCounts, d \in {0, 1}}


(***************************************************************************)
(* Requests.  key is the request's uniqueKey: the request queue accepts a  *)
(* request only when no request with that key was accepted before.  A URL  *)
(* is modelled by what identifies it: the price window and the page of a   *)
(* search URL, the listing id of a room URL.                               *)
(***************************************************************************)
Key(kind, a, b, c) == [kind |-> kind, a |-> a, b |-> b, c |-> c]

SearchRequest(key, ud, page) ==
    [label |-> "SEARCH", key |-> key, userData |-> ud, page |-> page,
     room |-> 0, retryCount |-> 0]
DetailRequest(key, ud, room) ==
    [label |-> "DETAIL", key |-> key, userData |-> ud, page |-> 0,
     room |-> room, retryCount |-> 0]

\* uniqueKey: url, for a start URL https://www.airbnb.com/rooms/<id>, to which
\* ?currency=... was appended (part_001:212-223)
StartUrlKey(room) == Key("startUrl", room, 0, 0)
\* uniqueKey: `${query}_shard_${shard.min}_${shard.max}` (part_001:292)
QueryShardKey(min, max) == Key("queryShard", min, max, 0)
\* uniqueKey: baseUrl.toString() (part_001:331), and the default uniqueKey of
\* a pagination request, its URL
SearchUrlKey(min, max, page) == Key("searchUrl", min, max, page)
\* uniqueKey: `shard_${min}_${max}_d${splitDepth + 1}` (dataStore.ts:226-227)
SplitShardKey(min, max, depth) == Key("shard", min, max, depth)
\* the default uniqueKey of https://www.airbnb.com/rooms/<id> (dataStore.ts:309-313)
RoomKey(room) == Key("room", room, 0, 0)

(***************************************************************************)
(* The entry script (part_001).  An input gives maxListings, simpleMode,   *)
(* the add-on flags, minPrice, maxPrice, priceShardingStep,                *)
(* enableHorizontalScaling ("true", "false" or "undefined") and the ids of *)
(* the rooms given as start URLs.                                          *)
(***************************************************************************)
\* part_001:53
maxListings(input) ==
    IF input.maxListings # Undefined /\ input.maxListings > 0
    THEN input.maxListings ELSE Infinity

\* part_001:129-174: the price range and the sharding switch after validation
ResolvedInput(input) ==
    LET auto == /\ maxListings(input) = Infinity
                /\ input.minPrice = Undefined /\ input.maxPrice = Undefined
        ehs1 == input.enableHorizontalScaling = "true" \/ auto
        min1 == IF auto THEN 0 ELSE input.minPrice
        max1 == IF auto THEN 10000 ELSE input.maxPrice
        inBlock == min1 # Undefined \/ ehs1
        ehs2 == IF inBlock /\ min1 # Undefined
                   /\ input.enableHorizontalScaling # "false"
                THEN TRUE ELSE ehs1
        max2 == IF inBlock /\ max1 = Undefined /\ (min1 # Undefined \/ ehs2)
                THEN 10000 ELSE max1
        min2 == IF inBlock /\ min1 = Undefined /\ (max1 # Undefined \/ ehs2)
                THEN 0 ELSE min1
        ehs3 == IF inBlock /\ min2 # Undefined /\ max2 # Undefined /\ min2 >= max2
                THEN FALSE ELSE ehs2
    IN [minPrice |-> min2, maxPrice |-> max2, enableHorizontalScaling |-> ehs3]

\* part_001:180-204; maxListings Infinity reaches a handler as null (dataStore.ts:137)
commonUserData(input) ==
    LET r == ResolvedInput(input)
    IN [maxListings |-> IF maxListings(input) = Infinity THEN Undefined
                        ELSE maxListings(input),
        simpleMode |-> input.simpleMode,
        addOnImages |-> input.addOnImages,
        addOnReviews |-> input.addOnReviews,
        addOnDetails |-> input.addOnDetails,
        addOnHostDetails |-> input.addOnHostDetails,
        minPrice |-> r.minPrice,
        maxPrice |-> r.maxPrice,
        globalMinPrice |-> r.minPrice,
        globalMaxPrice |-> r.maxPrice,
        splitDepth |-> Undefined]

\* part_001:250-253
shouldShard(input) ==
    LET r == ResolvedInput(input)
    IN /\ r.enableHorizontalScaling
       /\ r.minPrice # Undefined /\ r.maxPrice # Undefined
       /\ r.maxPrice > r.minPrice

\* part_001:206-341
startRequests(input) ==
    LET r == ResolvedInput(input)
        ud == commonUserData(input)
        shards == generatePriceShards(r.minPrice, r.maxPrice, input.priceShardingStep)
    IN {DetailRequest(StartUrlKey(room), ud, room) : room \in input.startRooms}
       \cup
       (IF shouldShard(input)
        THEN {SearchRequest(QueryShardKey(shards[k].min, shards[k].max),
                            [ud EXCEPT !.minPrice = shards[k].min,
                                       !.maxPrice = shards[k].max], 0) :
                  k \in 1..Len(shards)}
        ELSE {SearchRequest(SearchUrlKey(r.minPrice, r.maxPrice, 0), ud, 0)})


(***************************************************************************)
(* The handlers' reading of userData (dataStore.ts:135-139).               *)
(***************************************************************************)
needsDeepScrape(ud) ==
    \/ ~ud.simpleMode
    \/ ud.addOnImages \/ ud.addOnReviews \/ ud.addOnDetails \/ ud.addOnHostDetails

effectiveMaxListings(ud) ==
    IF ud.maxListings # Undefined /\ ud.maxListings > 0
    THEN ud.maxListings ELSE Infinity

(***************************************************************************)
(* A running handler.  pc is where it is suspended:                        *)
(*   SEARCH  "extract"   in waitForSelector .. extractListingUrls          *)
(*           "decide"    resumed, about to run lines 188-306               *)
(*           "enqWait"   in await crawler.addRequests (DETAIL), line 309   *)
(*           "pushWait"  in await pushData, line 353                       *)
(*           "kept"      resumed, about to run line 364                    *)
(*           "paginate"  resumed, about to run line 376                    *)
(*           "pagWait"   in the awaits of lines 382-541                    *)
(*   DETAIL  "dExtract"  in await extractListingDetails, line 567          *)
(*           "dPushWait" in await pushData, line 657                       *)
(*           "dAddOns"   resumed, about to run lines 666-674               *)
(*   both    "charging", "failing": inside chargeOrAbort; chg.ret is the   *)
(*           pc the caller continues at                                    *)
(***************************************************************************)
NoCharge == [eventName |-> "listing-scraped", count |-> 0, ret |-> "none"]

NewTask(req, pc) ==
    [req |-> req, pc |-> pc, listings |-> <<>>, totalCount |-> 0,
     duplicateCount |-> 0, i |-> 0, skippedCount |-> 0,
     remainingBeforeLoop |-> 0, addOn |-> 0, chg |-> NoCharge, kept |-> {}]

\* A call of chargeOrAbort(eventName, count) by task t, which continues at ret.
CallCharge(t, eventName, count, ret) ==
    IF ChargeEnter(count) = "returned"
    THEN [t EXCEPT !.pc = ret]
    ELSE [t EXCEPT !.pc = "charging",
                   !.chg = [eventName |-> eventName, count |-> count, ret |-> ret]]

\* crawler.addRequests: requests whose uniqueKey is new are accepted
Accepted(reqs) == {r \in reqs : r.key \notin queueKeys}

\* Reserve with the reservation left to a later segment of the handler
ReserveLater(seen, listingId) == seen

\* scrapedListingIds.add(listingId) (dataStore.ts:306)
Reserve(seen, listingId) == seen \cup {listingId}

\* the loop over the whole page instead of the slice of line 255
listingsToProcessWholePage(t) == t.listings

\* listings.slice(0, remainingBeforeLoop) (dataStore.ts:255)
listingsToProcess(t) ==
    SubSeq(t.listings, 1, Min(Len(t.listings), t.remainingBeforeLoop))

(***************************************************************************)
(* The listing loop (dataStore.ts:260-306) from listing i up to its next   *)
(* await: it runs through the listings it skips and stops at the first     *)
(* listing it keeps, at the cap (break) or at the end of the slice.        *)
(* The result: the listing reached, the skips counted, and whether the     *)
(* listing reached is kept.                                                *)
(***************************************************************************)
RECURSIVE RunLoop(_, _, _, _, _, _)
RunLoop(slice, i, skipped, ud, count, seen) ==
    IF i > Len(slice) \/ count >= effectiveMaxListings(ud)
    THEN [i |-> i, skippedCount |-> skipped, keep |-> FALSE]
    ELSE IF slice[i].id \in seen
    THEN RunLoop(slice, i + 1, skipped + 1, ud, count, seen)
    ELSE IF PriceFilter(slice[i].amount, ud.minPrice, ud.maxPrice,
                        ud.globalMinPrice, ud.globalMaxPrice) = "skip"
    THEN RunLoop(slice, i + 1, skipped + 1, ud, count, seen)
    ELSE [i |-> i, skippedCount |-> skipped, keep |-> TRUE]


Running == proc = "running"
Replace(t, u) == (tasks \ {t}) \cup {u}

\* the handler's entry without the early exit of lines 142-145
StartSearchNoEarlyExit(r) ==
    /\ Running
    /\ r \in queue /\ r.label = "SEARCH"
    /\ Cardinality(tasks) < MaxWorkers
    /\ queue' = queue \ {r}
    /\ tasks' = tasks \cup {NewTask(r, "extract")}
    /\ UNCHANGED <<totalScrapedCount, totalPushedCount, scrapedListingIds,
                   queueKeys, dataset, proc, hist, pure>>

(***************************************************************************)
(* The crawler takes a request off the queue, navigates and calls the      *)
(* handler of its label.                                                   *)
(***************************************************************************)
\* dataStore.ts:120-145: the SEARCH handler's entry and early exit
StartSearch(r) ==
    /\ Running
    /\ r \in queue /\ r.label = "SEARCH"
    /\ Cardinality(tasks) < MaxWorkers
    /\ queue' = queue \ {r}
    /\ tasks' = IF totalScrapedCount >= effectiveMaxListings(r.userData)
                THEN tasks
                ELSE tasks \cup {NewTask(r, "extract")}
    /\ UNCHANGED <<totalScrapedCount, totalPushedCount, scrapedListingIds,
                   queueKeys, dataset, proc, hist, pure>>

\* dataStore.ts:558-567: the DETAIL handler's entry
StartDetail(r) ==
    /\ Running
    /\ r \in queue /\ r.label = "DETAIL"
    /\ Cardinality(tasks) < MaxWorkers
    /\ queue' = queue \ {r}
    /\ tasks' = tasks \cup {NewTask(r, "dExtract")}
    /\ UNCHANGED <<totalScrapedCount, totalPushedCount, scrapedListingIds,
                   queueKeys, dataset, proc, hist, pure>>

(***************************************************************************)
(* The SEARCH handler (dataStore.ts:120-556).                              *)
(***************************************************************************)
\* the block detected only after the first listing of the page was reserved
SearchBlockedLate(t) ==
    /\ Running
    /\ t \in tasks /\ t.pc = "extract"
    /\ tasks' = tasks \ {t}
    /\ scrapedListingIds' = Reserve(scrapedListingIds, 1)
    /\ UNCHANGED <<totalScrapedCount, totalPushedCount, queue, queueKeys,
                   dataset, proc, hist, pure>>

\* lines 152-163: the listings did not show and the content carries a block
\* marker: the handler throws and the crawler retries the request.
SearchBlocked(t) ==
    /\ Running
    /\ t \in tasks /\ t.pc = "extract"
    /\ tasks' = tasks \ {t}
    /\ queue' = IF t.req.retryCount < MaxRetries
                THEN queue \cup {[t.req EXCEPT !.retryCount = @ + 1]}
                ELSE queue
    /\ UNCHANGED <<totalScrapedCount, totalPushedCount, scrapedListingIds,
                   queueKeys, dataset, proc, hist, pure>>

\* lines 177-186: extractListingUrls resolved; duplicates are charged
SearchExtracted(t, page) ==
    /\ Running
    /\ t \in tasks /\ t.pc = "extract"
    /\ LET u == [t EXCEPT !.listings = page.listings,
                          !.totalCount = page.totalCount,
                          !.duplicateCount = page.duplicateCount]
       IN tasks' = Replace(t, IF page.duplicateCount > 0
                              THEN CallCharge(u, "listing-scraped",
                                              page.duplicateCount, "decide")
                              ELSE [u EXCEPT !.pc = "decide"])
    /\ UNCHANGED <<totalScrapedCount, totalPushedCount, scrapedListingIds,
                   queue, queueKeys, dataset, proc, hist, pure>>

\* The locals of the listing loop are dead once the loop has ended.
Ended(u) == [u EXCEPT !.listings = <<>>, !.i = 0, !.skippedCount = 0,
                      !.remainingBeforeLoop = 0, !.kept = {}]

\* lines 260-377 from listing i0 with totalScrapedCount = count, for the task
\* t whose record is now u: up to the next await (or the handler's end).
LoopStep(t, u, i0, count) ==
    LET ud == u.req.userData
        slice == listingsToProcess(u)
        r == RunLoop(slice, i0, u.skippedCount, ud, count, scrapedListingIds)
        v == [u EXCEPT !.i = r.i, !.skippedCount = r.skippedCount]
        e == Ended(u)
    IN IF r.keep
       THEN LET l == slice[r.i]
                w == [v EXCEPT !.kept = @ \cup {l.id}]
                d == DetailRequest(RoomKey(l.id), ud, l.id)
            IN /\ scrapedListingIds' = Reserve(scrapedListingIds, l.id)
               /\ hist' = [hist EXCEPT !.kept[l.id] = @ + 1]
               /\ IF needsDeepScrape(ud)
                  THEN /\ queue' = queue \cup Accepted({d})
                       /\ queueKeys' = queueKeys \cup {d.key}
                       /\ tasks' = Replace(t, [w EXCEPT !.pc = "enqWait"])
                  ELSE /\ UNCHANGED <<queue, queueKeys>>
                       /\ tasks' = Replace(t, [w EXCEPT !.pc = "pushWait"])
       ELSE /\ UNCHANGED <<scrapedListingIds, hist, queue, queueKeys>>
            /\ tasks' = IF r.skippedCount > 0
                        THEN Replace(t, CallCharge(e, "listing-scraped",
                                                   r.skippedCount, "paginate"))
                        ELSE IF count < effectiveMaxListings(ud)
                        THEN Replace(t, [e EXCEPT !.pc = "pagWait"])
                        ELSE tasks \ {t}

\* lines 188-306: dynamic splitting, the empty page, the slice, the loop
SearchDecide(t) ==
    /\ Running
    /\ t \in tasks /\ t.pc = "decide"
    /\ LET ud == t.req.userData
           s1 == shard1(ud)
           s2 == shard2(ud)
           children ==
               {SearchRequest(SplitShardKey(s1.minPrice, s1.maxPrice, s1.splitDepth), s1, 0),
                SearchRequest(SplitShardKey(s2.minPrice, s2.maxPrice, s2.splitDepth), s2, 0)}
           remaining == effectiveMaxListings(ud) - totalScrapedCount
       IN IF shouldDynamicSplit(t.totalCount, ud)
          THEN /\ queue' = queue \cup Accepted(children)
               /\ queueKeys' = queueKeys \cup {c.key : c \in children}
               /\ tasks' = tasks \ {t}
               /\ UNCHANGED <<scrapedListingIds, hist>>
          ELSE IF Len(t.listings) = 0 \/ remaining <= 0
          THEN /\ tasks' = tasks \ {t}
               /\ UNCHANGED <<scrapedListingIds, hist, queue, queueKeys>>
          ELSE LoopStep(t, [t EXCEPT !.remainingBeforeLoop = remaining,
                                     !.totalCount = 0, !.duplicateCount = 0],
                        1, totalScrapedCount)
    /\ UNCHANGED <<totalScrapedCount, totalPushedCount, dataset, proc, pure>>

\* line 353: pushData resolved (then lines 354-359) or threw (line 360)
SearchPushSettled(t, ok) ==
    /\ Running
    /\ t \in tasks /\ t.pc = "pushWait"
    /\ IF ok
       THEN /\ dataset' = [dataset EXCEPT ![<<"simple", listingsToProcess(t)[t.i].id>>] = @ + 1]
            /\ totalPushedCount' = totalPushedCount + 1
            /\ tasks' = Replace(t, CallCharge(t, "listing-scraped", 1, "kept"))
       ELSE /\ UNCHANGED <<dataset, totalPushedCount>>
            /\ tasks' = Replace(t, [t EXCEPT !.pc = "kept"])
    /\ UNCHANGED <<totalScrapedCount, scrapedListingIds, queue, queueKeys,
                   proc, hist, pure>>

\* line 364, then the loop again: after addRequests resolved (deep mode), or
\* after the try/catch of lines 315-362 (fast mode)
SearchKept(t) ==
    /\ Running
    /\ t \in tasks /\ t.pc \in {"enqWait", "kept"}
    /\ totalScrapedCount' = totalScrapedCount + 1
    /\ LoopStep(t, t, t.i + 1, totalScrapedCount + 1)
    /\ UNCHANGED <<totalPushedCount, dataset, proc, pure>>

\* the pagination block entered without the guard of line 376
SearchPaginateUnguarded(t) ==
    /\ Running
    /\ t \in tasks /\ t.pc = "paginate"
    /\ tasks' = Replace(t, [t EXCEPT !.pc = "pagWait"])
    /\ UNCHANGED <<totalScrapedCount, totalPushedCount, scrapedListingIds,
                   queue, queueKeys, dataset, proc, hist, pure>>

\* line 376, after the skipped listings were charged
SearchPaginate(t) ==
    /\ Running
    /\ t \in tasks /\ t.pc = "paginate"
    /\ tasks' = IF totalScrapedCount < effectiveMaxListings(t.req.userData)
                THEN Replace(t, [t EXCEPT !.pc = "pagWait"])
                ELSE tasks \ {t}
    /\ UNCHANGED <<totalScrapedCount, totalPushedCount, scrapedListingIds,
                   queue, queueKeys, dataset, proc, hist, pure>>

\* lines 449-554: what the page's Next control allows
NextPageOutcomes == {"href", "clicked", "clickFailed", "disabled", "cursor"}

SearchPaginated(t, next) ==
    /\ Running
    /\ t \in tasks /\ t.pc = "pagWait"
    /\ LET ud == t.req.userData
           n == SearchRequest(SearchUrlKey(ud.minPrice, ud.maxPrice, t.req.page + 1),
                              ud, t.req.page + 1)
       IN IF next \in {"href", "clicked", "cursor"} /\ t.req.page < MaxPage
          THEN /\ queue' = queue \cup Accepted({n})
               /\ queueKeys' = queueKeys \cup {n.key}
          ELSE UNCHANGED <<queue, queueKeys>>
    /\ tasks' = tasks \ {t}
    /\ UNCHANGED <<totalScrapedCount, totalPushedCount, scrapedListingIds,
                   dataset, proc, hist, pure>>


(***************************************************************************)
(* The DETAIL handler (dataStore.ts:558-683).                              *)
(***************************************************************************)
\* lines 567-572: extractListingDetails resolved, with an id or without one
DetailExtracted(t, hasId) ==
    /\ Running
    /\ t \in tasks /\ t.pc = "dExtract"
    /\ tasks' = IF hasId THEN Replace(t, [t EXCEPT !.pc = "dPushWait"])
                ELSE tasks \ {t}
    /\ UNCHANGED <<totalScrapedCount, totalPushedCount, scrapedListingIds,
                   queue, queueKeys, dataset, proc, hist, pure>>

\* the DETAIL handler counting a record whose pushData threw
DetailPushSettledCounted(t, ok) ==
    /\ Running
    /\ t \in tasks /\ t.pc = "dPushWait"
    /\ totalPushedCount' = totalPushedCount + 1
    /\ IF ok
       THEN /\ dataset' = [dataset EXCEPT ![<<"deep", t.req.room>>] = @ + 1]
            /\ tasks' = Replace(t, CallCharge(t, "listing-scraped", 1, "dAddOns"))
       ELSE /\ UNCHANGED dataset
            /\ tasks' = tasks \ {t}
    /\ UNCHANGED <<totalScrapedCount, scrapedListingIds, queue, queueKeys,
                   proc, hist, pure>>

\* line 657: pushData resolved (then lines 658-663) or threw (line 680)
DetailPushSettled(t, ok) ==
    /\ Running
    /\ t \in tasks /\ t.pc = "dPushWait"
    /\ IF ok
       THEN /\ dataset' = [dataset EXCEPT ![<<"deep", t.req.room>>] = @ + 1]
            /\ totalPushedCount' = totalPushedCount + 1
            /\ tasks' = Replace(t, CallCharge(t, "listing-scraped", 1, "dAddOns"))
       ELSE /\ UNCHANGED <<dataset, totalPushedCount>>
            /\ tasks' = tasks \ {t}
    /\ UNCHANGED <<totalScrapedCount, scrapedListingIds, queue, queueKeys,
                   proc, hist, pure>>

\* lines 666-674: the add-on charges, in the order of the code
AddOnEvents == <<"addon-details", "addon-host-details", "addon-images">>
AddOnEnabled(ud, k) ==
    CASE k = 1 -> ud.addOnDetails
      [] k = 2 -> ud.addOnHostDetails
      [] k = 3 -> ud.addOnImages
NextAddOn(ud, k) ==
    LET later == {j \in (k + 1)..Len(AddOnEvents) : AddOnEnabled(ud, j)}
    IN IF later = {} THEN 0 ELSE CHOOSE j \in later : \A m \in later : j <= m

DetailAddOns(t) ==
    /\ Running
    /\ t \in tasks /\ t.pc = "dAddOns"
    /\ LET j == NextAddOn(t.req.userData, t.addOn)
       IN tasks' = IF j = 0 THEN tasks \ {t}
                   ELSE Replace(t, CallCharge([t EXCEPT !.addOn = j],
                                              AddOnEvents[j], 1, "dAddOns"))
    /\ UNCHANGED <<totalScrapedCount, totalPushedCount, scrapedListingIds,
                   queue, queueKeys, dataset, proc, hist, pure>>

(***************************************************************************)
(* chargeOrAbort inside a handler (charging.ts:13-36).                     *)
(***************************************************************************)
\* Actor.charge resolved or rejected
ChargeDone(t, outcome) ==
    /\ Running
    /\ t \in tasks /\ t.pc = "charging"
    /\ IF ChargeSettled(outcome) = "returned"
       THEN tasks' = Replace(t, [t EXCEPT !.pc = t.chg.ret, !.chg = NoCharge])
       ELSE tasks' = Replace(t, [t EXCEPT !.pc = "failing"])
    /\ UNCHANGED <<totalScrapedCount, totalPushedCount, scrapedListingIds,
                   queue, queueKeys, dataset, proc, hist, pure>>

\* Actor.fail returned or threw
FailDone(t, outcome) ==
    /\ Running
    /\ t \in tasks /\ t.pc = "failing"
    /\ IF FailSettled(outcome) = "exited"
       THEN /\ proc' = "exited"
            /\ UNCHANGED tasks
       ELSE /\ UNCHANGED proc
            /\ tasks' = Replace(t, [t EXCEPT !.pc = t.chg.ret, !.chg = NoCharge])
    /\ UNCHANGED <<totalScrapedCount, totalPushedCount, scrapedListingIds,
                   queue, queueKeys, dataset, hist, pure>>

(***************************************************************************)
(* The run: the inputs, the state when crawler.run(startRequests) begins   *)
(* (part_001:406), and the steps.                                          *)
(***************************************************************************)
\* An input of the run, with minPrice 0 and priceShardingStep 5.
Input(n, simple, details, maxP, ehs, rooms) ==
    [maxListings |-> n, simpleMode |-> simple,
     addOnImages |-> FALSE, addOnReviews |-> FALSE,
     addOnDetails |-> details, addOnHostDetails |-> FALSE,
     minPrice |-> 0, maxPrice |-> maxP, priceShardingStep |-> 5,
     enableHorizontalScaling |-> ehs, startRooms |-> rooms]

\* Fast and deep runs over the shards [0,4] and [5,9], with and without a room
\* start URL, and a fast run over the single window [0,21].
Inputs ==
    {Input(1, TRUE, FALSE, 9, "undefined", {3}),
     Input(2, TRUE, FALSE, 9, "undefined", {}),
     Input(1, FALSE, TRUE, 9, "undefined", {3}),
     Input(1, TRUE, FALSE, 21, "false", {})}

NoPure == [fn |-> "none"]

CrawlInit(initial, cap) ==
    /\ totalScrapedCount = 0
    /\ totalPushedCount = 0
    /\ scrapedListingIds = {}
    /\ queue = initial
    /\ queueKeys = {r.key : r \in initial}
    /\ tasks = {}
    /\ dataset = [x \in Modes \X Ids |-> 0]
    /\ proc = "running"
    /\ hist = [kept |-> [id \in Ids |-> 0], maxListings |-> cap]

Init ==
    /\ \E input \in Inputs : CrawlInit(startRequests(input), maxListings(input))
    /\ pure = NoPure

Next ==
    \/ \E r \in queue : StartSearch(r)
    \/ \E r \in queue : StartDetail(r)
    \/ \E t \in tasks : SearchBlocked(t)
    \/ \E t \in tasks, page \in PageResults : SearchExtracted(t, page)
    \/ \E t \in tasks : SearchDecide(t)
    \/ \E t \in tasks, ok \in BOOLEAN : SearchPushSettled(t, ok)
    \/ \E t \in tasks : SearchKept(t)
    \/ \E t \in tasks : SearchPaginate(t)
    \/ \E t \in tasks, next \in NextPageOutcomes : SearchPaginated(t, next)
    \/ \E t \in tasks, hasId \in BOOLEAN : DetailExtracted(t, hasId)
    \/ \E t \in tasks, ok \in BOOLEAN : DetailPushSettled(t, ok)
    \/ \E t \in tasks : DetailAddOns(t)
    \/ \E t \in tasks, outcome \in ChargeOutcomes : ChargeDone(t, outcome)
    \/ \E t \in tasks, outcome \in FailOutcomes : FailDone(t, outcome)

Spec == Init /\ [][Next]_vars


(***************************************************************************)
(* generatePriceShards on its own: a call with minPrice <= maxPrice and    *)
(* step >= 1, and its return value.                                        *)
(***************************************************************************)
ShardCalls ==
    {[fn |-> "generatePriceShards", pc |-> "called",
      minPrice |-> lo, maxPrice |-> lo + w, step |-> st, shards |-> <<>>] :
        lo \in 0..MaxShardStart, w \in 0..MaxShardWidth, st \in 1..MaxShardStep}

InitShards == CrawlInit({}, Infinity) /\ pure \in ShardCalls

ShardsReturn ==
    /\ pure.fn = "generatePriceShards" /\ pure.pc = "called"
    /\ pure' = [pure EXCEPT !.pc = "returned",
                            !.shards = generatePriceShards(pure.minPrice,
                                                           pure.maxPrice, pure.step)]
    /\ UNCHANGED crawlVars

SpecShards == InitShards /\ [][ShardsReturn]_vars

(***************************************************************************)
(* The listing loop on a page of one listing (dataStore.ts:258-306): the   *)
(* duplicate check and the price filter for a price, a shard window and a  *)
(* global window.                                                          *)
(***************************************************************************)
FilterAmounts == {NoAmount, 10, 75, 250, 400}
FilterShardWindows == {<<0, 100>>, <<101, 200>>, <<0, Undefined>>,
                       <<Undefined, Undefined>>}
FilterGlobalWindows == {<<50, 300>>, <<0, 400>>, <<50, Undefined>>,
                        <<Undefined, 300>>, <<Undefined, Undefined>>}

FilterUserData(shard, global) ==
    [commonUserData(Input(1, TRUE, FALSE, 9, "undefined", {})) EXCEPT
        !.minPrice = shard[1], !.maxPrice = shard[2],
        !.globalMinPrice = global[1], !.globalMaxPrice = global[2]]

FilterCalls ==
    {[fn |-> "filter", pc |-> "called", amount |-> a, shard |-> sw,
      global |-> gw, seen |-> seen, keep |-> FALSE, skippedCount |-> 0] :
        a \in FilterAmounts, sw \in FilterShardWindows,
        gw \in FilterGlobalWindows, seen \in SUBSET {1}}

InitFilter == CrawlInit({}, Infinity) /\ pure \in FilterCalls

FilterReturn ==
    /\ pure.fn = "filter" /\ pure.pc = "called"
    /\ LET r == RunLoop(<<[id |-> 1, amount |-> pure.amount]>>, 1, 0,
                        FilterUserData(pure.shard, pure.global), 0, pure.seen)
       IN pure' = [pure EXCEPT !.pc = "returned", !.keep = r.keep,
                               !.skippedCount = r.skippedCount]
    /\ UNCHANGED crawlVars

SpecFilter == InitFilter /\ [][FilterReturn]_vars


(***************************************************************************)
(* Chains of bisections (dataStore.ts:191-234): a SEARCH visit of a shard  *)
(* that reports totalCount, followed into either child when it splits.     *)
(* The roots are start requests: no splitDepth, any price window.          *)
(***************************************************************************)
SplitRoots == {<<Undefined, Undefined>>, <<0, 999>>, <<0, 21>>, <<5, 15>>, <<0, 10>>}
SplitCounts == {0, 999, TruncationThreshold, 1200}

SplitUserData(window) ==
    [commonUserData(Input(1, TRUE, FALSE, 9, "undefined", {})) EXCEPT
        !.minPrice = window[1], !.maxPrice = window[2],
        !.globalMinPrice = window[1], !.globalMaxPrice = window[2]]

SplitVisits ==
    {[fn |-> "split", pc |-> "visit", userData |-> SplitUserData(w),
      totalCount |-> c, page |-> p] :
        w \in SplitRoots, c \in SplitCounts, p \in 0..MaxPage}

InitSplit == CrawlInit({}, Infinity) /\ pure \in SplitVisits

\* the visit bisects: the crawl goes on with a child and the count it reports;
\* page is the page of the visited URL (0: no cursor), and the cursor is
\* deleted from the children's URLs (dataStore.ts:214, 223)
SplitBisect(child, c) ==
    /\ pure.fn = "split" /\ pure.pc = "visit"
    /\ shouldDynamicSplit(pure.totalCount, pure.userData)
    /\ child \in {shard1(pure.userData), shard2(pure.userData)}
    /\ pure' = [pure EXCEPT !.userData = child, !.totalCount = c, !.page = 0]
    /\ UNCHANGED crawlVars

\* the visit does not bisect: the page is processed
SplitProcess ==
    /\ pure.fn = "split" /\ pure.pc = "visit"
    /\ ~shouldDynamicSplit(pure.totalCount, pure.userData)
    /\ pure' = [pure EXCEPT !.pc = "processed"]
    /\ UNCHANGED crawlVars

NextSplit ==
    \/ \E b \in {1, 2}, c \in SplitCounts :
           SplitBisect(IF b = 1 THEN shard1(pure.userData)
                       ELSE shard2(pure.userData), c)
    \/ SplitProcess

SpecSplit == InitSplit /\ [][NextSplit]_vars

(***************************************************************************)
(* chargeOrAbort on its own (charging.ts:10-37): one call, followed        *)
(* through its awaits.  charges counts the calls of Actor.charge.          *)
(***************************************************************************)
ChargeEvents == {"listing-scraped", "addon-details", "addon-host-details",
                 "addon-images"}

ChargeCalls ==
    {[fn |-> "chargeOrAbort", pc |-> "called", eventName |-> e, count |-> n,
      charges |-> 0, chargeOutcome |-> "none", failOutcome |-> "none"] :
        e \in ChargeEvents, n \in -1..MaxChargeCount}

InitCharge == CrawlInit({}, Infinity) /\ pure \in ChargeCalls

\* line 11, and line 14 up to its await
ChargeCall ==
    /\ pure.fn = "chargeOrAbort" /\ pure.pc = "called"
    /\ pure' = [pure EXCEPT !.pc = ChargeEnter(pure.count),
                            !.charges = IF ChargeEnter(pure.count) = "charging"
                                        THEN 1 ELSE 0]
    /\ UNCHANGED crawlVars

\* line 14 settled; lines 15-30 up to the await of Actor.fail
ChargeResolve(outcome) ==
    /\ pure.fn = "chargeOrAbort" /\ pure.pc = "charging"
    /\ pure' = [pure EXCEPT !.pc = ChargeSettled(outcome),
                            !.chargeOutcome = outcome]
    /\ UNCHANGED crawlVars

\* line 30 settled; lines 31-35
ChargeFail(outcome) ==
    /\ pure.fn = "chargeOrAbort" /\ pure.pc = "failing"
    /\ pure' = [pure EXCEPT !.pc = FailSettled(outcome),
                            !.failOutcome = outcome]
    /\ UNCHANGED crawlVars

NextCharge ==
    \/ ChargeCall
    \/ \E outcome \in ChargeOutcomes : ChargeResolve(outcome)
    \/ \E outcome \in FailOutcomes : ChargeFail(outcome)

SpecCharge == InitCharge /\ [][NextCharge]_vars


(***************************************************************************)
(* The properties.                                                         *)
(***************************************************************************)
\* how often listing id was handed to pushData, by either handler
Emitted(id) == dataset[<<"simple", id>>] + dataset[<<"deep", id>>]

\* a SEARCH task inside its listing loop, suspended at a listing it keeps
InLoop(t) ==
    /\ t.req.label = "SEARCH"
    /\ \/ t.pc \in {"enqWait", "pushWait", "kept"}
       \/ t.pc \in {"charging", "failing"} /\ t.chg.ret = "kept"

\* the listing shows a price and the price lies outside the global window
OutsideGlobal(l, ud) ==
    /\ l.amount # NoAmount
    /\ \/ ud.globalMinPrice # Undefined /\ l.amount < ud.globalMinPrice
       \/ ud.globalMaxPrice # Undefined /\ l.amount > ud.globalMaxPrice

\* C1: under any interleaving of SEARCH and DETAIL tasks, in fast and in deep
\* mode, DETAIL tasks seeded from start URLs included, no listing id is
\* emitted to the output more than once.
C1_NoIdEmittedTwice == \A id \in Ids : Emitted(id) <= 1

\* C1, the case: a listing found by a SEARCH task and given as a start URL
\* has been emitted by a DETAIL task.
C1_StartRoomEmitted ==
    \E id \in Ids : hist.kept[id] = 1 /\ dataset[<<"deep", id>>] >= 1
                    /\ StartUrlKey(id) \in queueKeys

\* C2: the membership check and the claim of an id are one uninterrupted
\* step.  Of the SEARCH tasks whose pages contain an id at most one keeps it,
\* over the whole run; a task in its loop has put every listing it has passed
\* and that the price filter lets through into the seen-set, or found it
\* there, and has counted as skipped each one it did not keep itself.
C2_AtomicCheckAndClaim ==
    /\ \A id \in Ids : hist.kept[id] <= 1
    /\ \A t \in tasks : \A u \in tasks \ {t} : t.kept \cap u.kept = {}
    /\ \A t \in tasks : InLoop(t) =>
          /\ \A j \in 1..t.i :
                \/ listingsToProcess(t)[j].id \in scrapedListingIds
                \/ OutsideGlobal(listingsToProcess(t)[j], t.req.userData)
          /\ t.kept \subseteq {listingsToProcess(t)[j].id : j \in 1..t.i}
          /\ t.skippedCount = t.i - Cardinality(t.kept)

\* C2, the case: two SEARCH tasks run at once, their pages contain the same
\* id, one keeps it and the other has passed it and counted it as skipped.
C2_BothPagesHoldId ==
    \E t \in tasks : \E u \in tasks \ {t} :
        /\ InLoop(t) /\ InLoop(u)
        /\ \E j \in 1..(u.i - 1) :
              /\ listingsToProcess(u)[j].id \in t.kept
              /\ listingsToProcess(u)[j].id \notin u.kept
        /\ u.skippedCount >= 1

\* C3: with a finite cap N the number of listings kept by SEARCH tasks
\* (totalScrapedCount) never exceeds N, whatever the interleaving.
C3_ScrapedCountWithinCap ==
    hist.maxListings # Infinity => totalScrapedCount <= hist.maxListings

\* C3, the case: two SEARCH tasks are suspended at their emit step, each
\* having passed the limit check while the count was below the cap.
C3_TwoSuspendedAtCap ==
    /\ hist.maxListings = 1 /\ totalScrapedCount = 0
    /\ \E t \in tasks : \E u \in tasks \ {t} : t.pc = "pushWait" /\ u.pc = "pushWait"

\* C4: with cap N and more than N candidates, exactly N records are emitted
\* and the rest is never reserved, emitted or enqueued: the fast-mode records
\* and the reserved ids never number more than N, and a fast run that has
\* ended with its cap reached has emitted exactly N.
C4_ExactlyCapEmitted ==
    hist.maxListings # Infinity =>
        /\ Cardinality({id \in Ids : dataset[<<"simple", id>>] > 0}) <= hist.maxListings
        /\ Cardinality({id \in Ids : hist.kept[id] > 0}) <= hist.maxListings

\* C4, the case: a fast run with cap 1 has emitted two records.
C4_OverCapEmitted ==
    /\ hist.maxListings = 1
    /\ Cardinality({id \in Ids : dataset[<<"simple", id>>] > 0}) = 2

\* the child SEARCH request of parent request r for the window [lo, hi]
ChildOf(r, lo, hi) ==
    [label |-> "SEARCH", page |-> 0, room |-> 0, retryCount |-> 0,
     key |-> [kind |-> "shard", a |-> lo, b |-> hi,
              c |-> splitDepth(r.userData) + 1],
     userData |-> [r.userData EXCEPT !.minPrice = lo, !.maxPrice = hi,
                                     !.splitDepth = splitDepth(r.userData) + 1]]

\* C5: a SEARCH visit of shard [min,max] at depth d with totalCount >= 1000,
\* max-min > 10 and d < 10 hands the request queue exactly the two children
\* [min, floor((min+max)/2)] and [floor((min+max)/2)+1, max] at depth d+1
\* (the queue takes each one whose uniqueKey it has not seen), reserves no id, emits nothing and enqueues neither a DETAIL task nor a
\* pagination request; when a condition fails the step enqueues no child
\* and the page is processed: its first listing, if new and not filtered
\* out, is reserved.
C5_TruncationBisection ==
    [][\A t \in tasks : (t.pc = "decide" /\ t \notin tasks') =>
          LET ud == t.req.userData
              lo == IF ud.minPrice = Undefined THEN 0 ELSE ud.minPrice
              hi == IF ud.maxPrice = Undefined THEN 1000000 ELSE ud.maxPrice
              d == IF ud.splitDepth = Undefined THEN 0 ELSE ud.splitDepth
              mid == (lo + hi) \div 2
          IN IF t.totalCount >= 1000 /\ hi - lo > 10 /\ d < 10
             THEN /\ queueKeys' = queueKeys \cup {ChildOf(t.req, lo, mid).key,
                                                 ChildOf(t.req, mid + 1, hi).key}
                  /\ queue' \ queue =
                        {c \in {ChildOf(t.req, lo, mid), ChildOf(t.req, mid + 1, hi)} :
                            c.key \notin queueKeys}
                  /\ tasks' = tasks \ {t}
                  /\ scrapedListingIds' = scrapedListingIds
                  /\ dataset' = dataset
                  /\ hist' = hist
                  /\ totalScrapedCount' = totalScrapedCount
                  /\ totalPushedCount' = totalPushedCount
             ELSE /\ \A r \in queue' \ queue : r.key.kind # "shard"
                  /\ (/\ Len(t.listings) > 0
                      /\ totalScrapedCount < hist.maxListings
                      /\ t.listings[1].id \notin scrapedListingIds
                      /\ ~OutsideGlobal(t.listings[1], ud))
                       => scrapedListingIds' = scrapedListingIds \cup {t.listings[1].id}
       ]_vars

\* C5, the case: the window [0,21] was bisected at depth 0, its children
\* [0,10] and [11,21] are queued at depth 1 and nothing was reserved.
C5_ChildrenQueued ==
    \E r \in queue : \E q \in queue :
        /\ scrapedListingIds = {}
        /\ r.key = SplitShardKey(0, 10, 1) /\ q.key = SplitShardKey(11, 21, 1)
        /\ r.userData.splitDepth = 1 /\ q.userData.splitDepth = 1
        /\ r.userData.maxPrice = 10 /\ q.userData.minPrice = 11

\* C6: every child of a bisection has splitDepth one greater than its
\* parent, every SEARCH task has splitDepth in 0..10, hence every chain of
\* bisections is finite, even when every page reports totalCount >= 1000.
C6_SplitDepthBounded ==
    [][/\ splitDepth(pure.userData) \in 0..10
       /\ splitDepth(pure'.userData) \in 0..10
       /\ pure'.userData # pure.userData =>
             /\ splitDepth(pure'.userData) = splitDepth(pure.userData) + 1
             /\ pure'.userData.splitDepth = splitDepth(pure.userData) + 1
      ]_vars

\* C6, the case: a chain of ten bisections; the shard at depth 10 still
\* reports totalCount >= 1000 over a window wider than 10 and is processed.
C6_DepthLimitReached ==
    /\ pure.fn = "split" /\ pure.pc = "processed"
    /\ pure.userData.splitDepth = 10
    /\ pure.totalCount >= 1000
    /\ pure.userData.maxPrice - pure.userData.minPrice > 10

\* C7: with global window [50,300] and shard window [0,100], a listing not
\* yet seen priced 250 is kept, one priced 10 is kept, and one priced 400 is
\* skipped and counted.
C7_TwoTierExample ==
    (/\ pure.fn = "filter" /\ pure.pc = "returned" /\ pure.seen = {}
     /\ pure.global = <<50, 300>> /\ pure.shard = <<0, 100>>) =>
        /\ pure.amount = 250 => pure.keep /\ pure.skippedCount = 0
        /\ pure.amount = 10 => pure.keep /\ pure.skippedCount = 0
        /\ pure.amount = 400 => ~pure.keep /\ pure.skippedCount = 1

\* C7, the case: the loop has run on the listing priced 10.
C7_PriceTenFiltered ==
    /\ pure.fn = "filter" /\ pure.pc = "returned" /\ pure.seen = {}
    /\ pure.global = <<50, 300>> /\ pure.shard = <<0, 100>>
    /\ pure.amount = 10 /\ ~pure.keep /\ pure.skippedCount = 1

\* C8: of the listings a SEARCH task's loop comes to and finds not yet seen,
\* the one priced outside the global window is skipped and counted, and is
\* never reserved, emitted or enqueued; the one inside the global window is
\* kept, inside the shard's window or not.  No listing kept by a SEARCH task
\* has a price outside the global window.
C8_GlobalWindowFilter ==
    \A t \in tasks :
        LET ud == t.req.userData
            slice == listingsToProcess(t)
        IN /\ \A id \in Ids : OutsideGlobal(Listing(id), ud) =>
                 /\ hist.kept[id] = 0
                 /\ id \notin scrapedListingIds
                 /\ dataset[<<"simple", id>>] = 0
                 /\ RoomKey(id) \notin queueKeys
           /\ InLoop(t) =>
                 /\ \A j \in 1..t.i :
                       IF OutsideGlobal(slice[j], ud)
                       THEN slice[j].id \notin t.kept
                       ELSE slice[j].id \in scrapedListingIds
                 /\ t.skippedCount >=
                       Cardinality({j \in 1..t.i : OutsideGlobal(slice[j], ud)})
                 /\ slice[t.i].id \in t.kept

\* C8, the case: a task of shard [5,9] has skipped and counted a listing
\* priced outside the global window [0,9] and has kept a listing priced 3,
\* inside the global window and outside its shard's.
C8_KeptOutsideShard ==
    \E t \in tasks :
        /\ InLoop(t) /\ t.i = 2 /\ t.skippedCount = 1
        /\ OutsideGlobal(listingsToProcess(t)[1], t.req.userData)
        /\ listingsToProcess(t)[2].id \in t.kept
        /\ listingsToProcess(t)[2].amount # NoAmount
        /\ listingsToProcess(t)[2].amount < t.req.userData.minPrice
        /\ listingsToProcess(t)[2].amount >= t.req.userData.globalMinPrice

\* C9: generatePriceShards(min, max, step) with min <= max and step >= 1
\* returns ascending, contiguous, non-overlapping intervals covering [min,max]
\* exactly: the first starts at min, each next one starts at the previous
\* end + 1, every interval but the last has width step, the last is clipped
\* to max; [0,23] with step 5 gives [0,4],[5,9],[10,14],[15,19],[20,23].
C9_ShardsContiguous ==
    (pure.fn = "generatePriceShards" /\ pure.pc = "returned") =>
        LET sh == pure.shards
            n == Len(sh)
        IN /\ n >= 1
           /\ sh[1].min = pure.minPrice
           /\ sh[n].max = pure.maxPrice
           /\ \A k \in 1..n : sh[k].min <= sh[k].max
           /\ \A k \in 1..(n - 1) :
                 /\ sh[k + 1].min = sh[k].max + 1
                 /\ sh[k].max - sh[k].min + 1 = pure.step
           /\ sh[n].max - sh[n].min + 1 <= pure.step
           /\ (pure.minPrice = 0 /\ pure.maxPrice = 23 /\ pure.step = 5) =>
                 sh = <<[min |-> 0, max |-> 4], [min |-> 5, max |-> 9],
                        [min |-> 10, max |-> 14], [min |-> 15, max |-> 19],
                        [min |-> 20, max |-> 23]>>

\* C9, the case: generatePriceShards(0, 23, 5) has returned five intervals.
C9_ExampleReturned ==
    /\ pure.fn = "generatePriceShards" /\ pure.pc = "returned"
    /\ pure.minPrice = 0 /\ pure.maxPrice = 23 /\ pure.step = 5
    /\ Len(pure.shards) = 5

\* C10: every failed charge is fatal.  Once Actor.charge has failed, with a
\* credit error or any other, chargeOrAbort never returns to its caller, and
\* once Actor.fail has settled, returning or throwing, the process has
\* exited; a call with count <= 0 charges nothing and returns.
C10_FailedChargeFatal ==
    pure.fn = "chargeOrAbort" =>
        /\ pure.chargeOutcome \in {"creditError", "otherError"} =>
              pure.pc \in {"failing", "exited"}
        /\ pure.failOutcome # "none" => pure.pc = "exited"
        /\ pure.pc = "returned" =>
              \/ pure.count <= 0 /\ pure.charges = 0
              \/ pure.count > 0 /\ pure.charges = 1 /\ pure.chargeOutcome = "ok"
        /\ (pure.count <= 0 /\ pure.pc # "called") =>
              pure.pc = "returned" /\ pure.charges = 0

\* C10, the case: a charge failed with an error that is not about credits,
\* Actor.fail threw, and the process has exited.
C10_FailThrewAndExited ==
    /\ pure.fn = "chargeOrAbort" /\ pure.pc = "exited"
    /\ pure.chargeOutcome = "otherError" /\ pure.failOutcome = "throws"

\* a charge has failed: some call of chargeOrAbort is in its catch block, or
\* the process has exited
ChargeFailed == proc = "exited" \/ \E t \in tasks : t.pc = "failing"

\* the record whose base event task t is charging: the listing just pushed
BilledRecord(t) ==
    IF t.req.label = "SEARCH"
    THEN <<"simple", listingsToProcess(t)[t.i].id>>
    ELSE <<"deep", t.req.room>>

\* C11: a metering failure aborts at once with no partial credit.  Once a
\* charge has failed no task emits a further record, the tasks suspended
\* while the failure is handled included, and no record whose base charge
\* failed is in the output.
C11_AbortWithoutPartialCredit ==
    [][/\ ChargeFailed => dataset' = dataset
       /\ \A t \in tasks :
             (/\ t.pc = "failing"
              /\ t.chg.eventName = "listing-scraped"
              /\ t.chg.ret \in {"kept", "dAddOns"}) => dataset[BilledRecord(t)] = 0
      ]_vars

\* C11, the case: the charge of one task has failed and Actor.fail is
\* pending while another task is suspended in pushData.
C11_FailurePendingWhilePushing ==
    \E t \in tasks : \E u \in tasks \ {t} :
        t.pc = "failing" /\ u.pc \in {"pushWait", "dPushWait"}


(***************************************************************************)
(* The DETAIL record's merge of the extracted detail with the summary      *)
(* carried in userData (dataStore.ts:592-606): one field of finalData.     *)
(* A JavaScript value is a record tagged with its type.                    *)
(***************************************************************************)
JsUndefined == [t |-> "undefined"]
JsNull == [t |-> "null"]
JsNumber(n) == [t |-> "number", num |-> n]
JsString(str) == [t |-> "string", str |-> str]
JsObject(name) == [t |-> "object", ref |-> name]

\* ToBoolean: undefined, null, 0 and '' are falsy, every object is truthy
Truthy(v) ==
    CASE v.t \in {"undefined", "null"} -> FALSE
      [] v.t = "number" -> v.num # 0
      [] v.t = "string" -> v.str # ""
      [] OTHER -> TRUE

\* a || b
JsOr(a, b) == IF Truthy(a) THEN a ELSE b

\* fullData.<field> || searchData.<field>   (price: fullData.price || price)
finalDataField(detail, summary) == JsOr(detail, summary)

NumberFields == {"rating", "reviewsCount", "beds", "bedrooms", "bathrooms",
                 "personCapacity"}
StringFields == {"title", "thumbnail", "roomType", "location"}
MergedFields == NumberFields \cup StringFields \cup {"price"}

\* the values a field takes in the detail record or in the summary
FieldValues(field) ==
    {JsUndefined, JsNull} \cup
    (CASE field \in NumberFields -> {JsNumber(0), JsNumber(1), JsNumber(2)}
       [] field \in StringFields -> {JsString(""), JsString("a"), JsString("b")}
       [] OTHER -> {JsObject("detailPrice"), JsObject("summaryPrice")})

MergeCalls ==
    UNION {{[fn |-> "merge", pc |-> "called", field |-> f, detail |-> d,
             summary |-> m, out |-> JsUndefined] :
                d \in FieldValues(f), m \in FieldValues(f)} : f \in MergedFields}

InitMerge == CrawlInit({}, Infinity) /\ pure \in MergeCalls

MergeReturn ==
    /\ pure.fn = "merge" /\ pure.pc = "called"
    /\ pure' = [pure EXCEPT !.pc = "returned",
                            !.out = finalDataField(pure.detail, pure.summary)]
    /\ UNCHANGED crawlVars

SpecMerge == InitMerge /\ [][MergeReturn]_vars

\* C12: for every field shared by the detail and the carried-over summary
\* the DETAIL record takes the detail value when it is present and
\* non-empty, a present 0 included, and the summary value only when the
\* detail value is absent (undefined, null) or empty ('').
C12_DetailOverridesSummary ==
    (pure.fn = "merge" /\ pure.pc = "returned") =>
        IF \/ pure.detail.t \in {"undefined", "null"}
           \/ pure.detail.t = "string" /\ pure.detail.str = ""
        THEN pure.out = pure.summary
        ELSE pure.out = pure.detail

\* C12, the case: the detail page of a studio gave bedrooms 0, the summary
\* carried bedrooms 1, and the record was built.
C12_StudioBedrooms ==
    /\ pure.fn = "merge" /\ pure.pc = "returned" /\ pure.field = "bedrooms"
    /\ pure.detail = JsNumber(0) /\ pure.summary = JsNumber(1)
    /\ pure.out = JsNumber(1)


(***************************************************************************)
(* Field resolution in extractListingDetails (extractors.ts:450-1137):     *)
(* the assignments to one field of the detail record, in the order the     *)
(* code runs them.  A site of source "walk" runs once for every node of    *)
(* the primary payload that matches it; a site of the bootstrap payload    *)
(* (__NEXT_DATA__) or of the DOM runs once.  guarded: the assignment is    *)
(* under a test that the field is still unset.                             *)
(***************************************************************************)
MaxOffers == 2          \* values offered to one field by the sources

Site(source, guarded) == [source |-> source, guarded |-> guarded]

ResolveSites(field) ==
    CASE field = "currency" -> <<Site("walk", FALSE)>>                \* 455
      [] field = "locale" -> <<Site("walk", FALSE)>>                  \* 460
      [] field = "location" ->
            <<Site("walk", FALSE), Site("dom", TRUE)>>                \* 542, 952
      [] field = "hostId" ->
            <<Site("walk", FALSE), Site("walk", FALSE),               \* 485, 502
              Site("walk", TRUE), Site("walk", TRUE),                 \* 511, 520
              Site("boot", FALSE), Site("boot", TRUE),                \* 718, 725
              Site("boot", TRUE), Site("boot", TRUE),                 \* 744, 751
              Site("dom", TRUE)>>                                     \* 1059
      [] field = "hostName" ->
            <<Site("walk", FALSE), Site("walk", TRUE),                \* 488, 515
              Site("walk", TRUE), Site("boot", TRUE),                 \* 522, 728
              Site("boot", TRUE), Site("boot", TRUE),                 \* 746, 753
              Site("boot", TRUE), Site("dom", FALSE),                 \* 762, 1091
              Site("dom", TRUE), Site("dom", TRUE)>>                  \* 1099, 1108
      [] field = "yearsHosting" ->
            <<Site("walk", FALSE), Site("boot", TRUE),                \* 495, 732
              Site("boot", TRUE), Site("boot", TRUE),                 \* 737, 764
              Site("boot", TRUE), Site("dom", FALSE)>>                \* 769, 1117
      [] field = "isSuperhost" ->
            <<Site("walk", FALSE), Site("walk", FALSE),               \* 489, 504
              Site("boot", FALSE), Site("boot", FALSE),               \* 729, 747
              Site("boot", FALSE), Site("dom", FALSE)>>               \* 754, 1131

ResolvedFields == {"currency", "locale", "location", "hostId", "hostName",
                   "yearsHosting", "isSuperhost"}

\* the order of the sources
SourceRank(source) ==
    CASE source = "walk" -> 1 [] source = "boot" -> 2 [] source = "dom" -> 3

\* one assignment: result.f = v, or if (!result.f) result.f = v
AssignField(site, current, offered) ==
    IF site.guarded /\ current # Undefined THEN current ELSE offered

\* offer o may be followed by one met at site k: walk sites run in the order
\* of the nodes, the others once each in the order of the code
OfferInOrder(sites, o, k) ==
    \/ Len(o) = 0
    \/ LET last == o[Len(o)].site
       IN IF sites[k].source = "walk"
          THEN sites[last].source = "walk"
          ELSE \/ SourceRank(sites[last].source) < SourceRank(sites[k].source)
               \/ sites[last].source = sites[k].source /\ last < k

\* What a page offers to a field: up to n values, each met at a site, in the
\* order the code meets them.
RECURSIVE OfferSeqs(_, _)
OfferSeqs(field, n) ==
    IF n = 0 THEN {<<>>}
    ELSE LET sites == ResolveSites(field)
             shorter == OfferSeqs(field, n - 1)
             longest == {o \in shorter : Len(o) = n - 1}
         IN shorter \cup
            {Append(x[1], [site |-> x[2], value |-> x[3]]) :
                x \in {y \in longest \X (1..Len(sites)) \X (1..2) :
                          OfferInOrder(sites, y[1], y[2])}}

ResolveCalls ==
    UNION {{[fn |-> "resolve", field |-> f, offers |-> o, k |-> 1, pass |-> 1,
             value |-> Undefined] : o \in OfferSeqs(f, MaxOffers)} :
                f \in ResolvedFields}

InitResolve == CrawlInit({}, Infinity) /\ pure \in ResolveCalls

\* the next assignment of the chain
ResolveApply ==
    /\ pure.fn = "resolve" /\ pure.k <= Len(pure.offers)
    /\ LET o == pure.offers[pure.k]
       IN pure' = [pure EXCEPT
                      !.k = @ + 1,
                      !.value = AssignField(ResolveSites(pure.field)[o.site],
                                            pure.value, o.value)]
    /\ UNCHANGED crawlVars

\* the chain applied once more to the same sources
ResolveAgain ==
    /\ pure.fn = "resolve" /\ pure.k > Len(pure.offers) /\ pure.pass = 1
    /\ pure' = [pure EXCEPT !.k = 1, !.pass = 2]
    /\ UNCHANGED crawlVars

NextResolve == ResolveApply \/ ResolveAgain

SpecResolve == InitResolve /\ [][NextResolve]_vars

\* C13: field resolution is first-match-wins across the ordered sources.
\* Once a field of the detail record is set no later or lower-priority
\* source changes it, and re-applying the chain to the same sources leaves
\* every set field unchanged.
C13_FirstMatchWins ==
    [][(pure.fn = "resolve" /\ pure.value # Undefined) =>
           pure'.value = pure.value]_vars

\* C13, the case: the primary payload set the host's name and the DOM's
\* "Hosted by" text offered another one.
C13_DomOffersSetField ==
    /\ pure.fn = "resolve" /\ pure.field = "hostName" /\ pure.pass = 1
    /\ pure.k = 2 /\ Len(pure.offers) = 2 /\ pure.value = 1
    /\ ResolveSites("hostName")[pure.offers[1].site].source = "walk"
    /\ ResolveSites("hostName")[pure.offers[2].site] = Site("dom", FALSE)
    /\ pure.offers[2].value = 2


(***************************************************************************)
(* Price parsing: extractListingUrls (extractors.ts:193-235) and           *)
(* extractListingDetails (extractors.ts:551-567).  A price line is         *)
(* modelled by what the code reads in it: the first number of the text,    *)
(* the N of an "N night(s)" marker in the qualifier and in the text (0: no *)
(* marker), whether the marker is spelled "nights", and whether the text   *)
(* has the word "total".                                                   *)
(***************************************************************************)
MaxNights == 6          \* N of an "N nights" marker is in 1..MaxNights

PriceAmounts == {0, 150, 900, 1000}

PriceLines ==
    {[amount |-> a, qualifierNights |-> q, textNights |-> n,
      plural |-> pl, total |-> tot] :
        a \in PriceAmounts, q \in 0..MaxNights, n \in 0..MaxNights,
        pl \in BOOLEAN, tot \in BOOLEAN}

\* Math.round(a / n) for a >= 0, n >= 1
RoundDiv(a, n) == (2 * a + n) \div (2 * n)

\* extractors.ts:207-216
numNights(line) ==
    IF line.qualifierNights > 0 THEN line.qualifierNights
    ELSE IF line.textNights > 0 THEN line.textNights
    ELSE 1

\* extractors.ts:222-224
isTotal(line) ==
    \/ line.total
    \/ line.plural /\ (line.textNights > 0 \/ line.qualifierNights > 0)

\* extractors.ts:203-232: the amount of extractedPrice
searchPriceAmount(line) ==
    LET amount == IF numNights(line) > 1 /\ line.amount > 0 /\ isTotal(line)
                  THEN RoundDiv(line.amount, numNights(line))
                  ELSE line.amount
    IN IF amount > 0 THEN amount ELSE NoAmount

\* extractors.ts:558-562: the amount of result.price, the first run of digits
detailPriceAmount(line) == IF line.amount > 0 THEN line.amount ELSE NoAmount

PriceCalls ==
    {[fn |-> "price", pc |-> "called", extractor |-> e, line |-> l,
      amount |-> NoAmount] : e \in {"search", "detail"}, l \in PriceLines}

InitPrice == CrawlInit({}, Infinity) /\ pure \in PriceCalls

PriceSearch ==
    /\ pure.fn = "price" /\ pure.pc = "called" /\ pure.extractor = "search"
    /\ pure' = [pure EXCEPT !.pc = "returned",
                            !.amount = searchPriceAmount(pure.line)]
    /\ UNCHANGED crawlVars

PriceDetail ==
    /\ pure.fn = "price" /\ pure.pc = "called" /\ pure.extractor = "detail"
    /\ pure' = [pure EXCEPT !.pc = "returned",
                            !.amount = detailPriceAmount(pure.line)]
    /\ UNCHANGED crawlVars

NextPrice == PriceSearch \/ PriceDetail

SpecPrice == InitPrice /\ [][NextPrice]_vars

\* C14: whenever the qualifier or the text of a price carries a marker of
\* N > 1 nights the amount is the parsed amount divided by N (900 for 6
\* nights gives 150), and with no nights marker the parsed amount is kept;
\* this holds for the search-page and for the detail-page extractor.
C14_NightlyPrice ==
    (pure.fn = "price" /\ pure.pc = "returned" /\ pure.line.amount > 0) =>
        LET l == pure.line
            n == IF l.qualifierNights > 0 THEN l.qualifierNights ELSE l.textNights
        IN /\ n > 1 => pure.amount = RoundDiv(l.amount, n)
           /\ n = 0 => pure.amount = l.amount
           /\ (l.amount = 900 /\ n = 6) => pure.amount = 150

\* C14, the case: the detail page shows "$900 total for 6 nights" and the
\* detail extractor has returned the amount 900.
C14_DetailTotalKept ==
    /\ pure.fn = "price" /\ pure.pc = "returned" /\ pure.extractor = "detail"
    /\ pure.line = [amount |-> 900, qualifierNights |-> 0, textNights |-> 6,
                    plural |-> TRUE, total |-> TRUE]
    /\ pure.amount = 900


(***************************************************************************)
(* One DETAIL visit with a ledger of what it emitted and billed            *)
(* (dataStore.ts:558-683): the handler's steps as in DetailExtracted,      *)
(* DetailPushSettled, DetailAddOns and ChargeDone, for every combination   *)
(* of the four add-on flags of request.userData (line 559).                *)
(***************************************************************************)
Categories == {"images", "reviews", "details", "hostDetails"}

DetailUserData ==
    {[addOnImages |-> im, addOnReviews |-> rv, addOnDetails |-> de,
      addOnHostDetails |-> ho] :
        im \in BOOLEAN, rv \in BOOLEAN, de \in BOOLEAN, ho \in BOOLEAN}

\* line 559: the flag of a category
CategoryEnabled(ud, c) ==
    CASE c = "images" -> ud.addOnImages
      [] c = "reviews" -> ud.addOnReviews
      [] c = "details" -> ud.addOnDetails
      [] c = "hostDetails" -> ud.addOnHostDetails

\* lines 617-634: the categories whose fields are set on finalData
addOnFields(ud) == {c \in Categories : CategoryEnabled(ud, c)}

BilledEvents == {"listing-scraped"} \cup {AddOnEvents[k] : k \in 1..Len(AddOnEvents)}

DetailVisits ==
    {[fn |-> "detail", task |-> NewTask([label |-> "DETAIL", userData |-> ud], "dExtract"),
      emitted |-> 0, fields |-> {}, billed |-> [e \in BilledEvents |-> 0]] :
        ud \in DetailUserData}

InitDetail == CrawlInit({}, Infinity) /\ pure \in DetailVisits

\* lines 567-572
VisitExtracted(hasId) ==
    /\ pure.fn = "detail" /\ pure.task.pc = "dExtract"
    /\ pure' = [pure EXCEPT !.task.pc = IF hasId THEN "dPushWait" ELSE "returned"]
    /\ UNCHANGED crawlVars

\* lines 657-663
VisitPushSettled(ok) ==
    /\ pure.fn = "detail" /\ pure.task.pc = "dPushWait"
    /\ pure' = IF ok
               THEN [pure EXCEPT !.emitted = @ + 1,
                                 !.fields = addOnFields(pure.task.req.userData),
                                 !.task = CallCharge(@, "listing-scraped", 1, "dAddOns")]
               ELSE [pure EXCEPT !.task.pc = "returned"]
    /\ UNCHANGED crawlVars

\* charging.ts:13-15 inside the visit
VisitCharged(outcome) ==
    /\ pure.fn = "detail" /\ pure.task.pc = "charging"
    /\ pure' = IF ChargeSettled(outcome) = "returned"
               THEN [pure EXCEPT !.billed[pure.task.chg.eventName] = @ + pure.task.chg.count,
                                 !.task.pc = pure.task.chg.ret,
                                 !.task.chg = NoCharge]
               ELSE [pure EXCEPT !.task.pc = "failing"]
    /\ UNCHANGED crawlVars

\* lines 666-674
VisitAddOns ==
    /\ pure.fn = "detail" /\ pure.task.pc = "dAddOns"
    /\ LET j == NextAddOn(pure.task.req.userData, pure.task.addOn)
       IN pure' = IF j = 0 THEN [pure EXCEPT !.task.pc = "returned"]
                  ELSE [pure EXCEPT !.task = CallCharge([@ EXCEPT !.addOn = j],
                                                        AddOnEvents[j], 1, "dAddOns")]
    /\ UNCHANGED crawlVars

NextDetail ==
    \/ \E hasId \in BOOLEAN : VisitExtracted(hasId)
    \/ \E ok \in BOOLEAN : VisitPushSettled(ok)
    \/ \E outcome \in ChargeOutcomes : VisitCharged(outcome)
    \/ VisitAddOns

SpecDetail == InitDetail /\ [][NextDetail]_vars

RECURSIVE SumBilled(_, _)
SumBilled(billed, events) ==
    IF events = {} THEN 0
    ELSE LET e == CHOOSE x \in events : TRUE
         IN billed[e] + SumBilled(billed, events \ {e})

\* C15: a DETAIL visit that extracted an id and ran to its end has emitted
\* exactly one record and billed exactly one 'listing-scraped' event plus
\* exactly one event for each enabled category among images, reviews,
\* details and hostDetails, and nothing for a disabled category.
C15_OneEventPerEnabledCategory ==
    (pure.fn = "detail" /\ pure.task.pc = "returned" /\ pure.emitted > 0) =>
        /\ pure.emitted = 1
        /\ pure.billed["listing-scraped"] = 1
        /\ SumBilled(pure.billed, BilledEvents \ {"listing-scraped"})
              = Cardinality(addOnFields(pure.task.req.userData))

\* C15, the case: a visit with only the reviews add-on enabled has emitted
\* its record with the reviews field and returned after billing the base
\* event alone.
C15_ReviewsEmittedUnbilled ==
    /\ pure.fn = "detail" /\ pure.task.pc = "returned"
    /\ pure.task.req.userData = [addOnImages |-> FALSE, addOnReviews |-> TRUE,
                                 addOnDetails |-> FALSE, addOnHostDetails |-> FALSE]
    /\ pure.emitted = 1 /\ pure.fields = {"reviews"}
    /\ SumBilled(pure.billed, BilledEvents) = 1


(***************************************************************************)
(* The crawl with the exported reset (dataStore.ts:686-690), which a       *)
(* caller of the module may invoke between any two steps of the handlers.  *)
(***************************************************************************)
MaxResets == 1          \* resetScrapedCount is called at most MaxResets times

\* the reset without its scrapedListingIds.clear()
resetOutcomeNoClear ==
    [totalScrapedCount |-> 0, totalPushedCount |-> 0,
     scrapedListingIds |-> scrapedListingIds]

\* lines 687-689: what the reset assigns
resetOutcome ==
    [totalScrapedCount |-> 0, totalPushedCount |-> 0, scrapedListingIds |-> {}]

ResetInputs == {Input(1, TRUE, FALSE, 9, "undefined", {3})}

InitReset ==
    /\ \E input \in ResetInputs :
          CrawlInit(startRequests(input), maxListings(input))
    /\ pure = [fn |-> "reset", count |-> 0]

resetScrapedCount ==
    /\ pure.fn = "reset" /\ pure.count < MaxResets
    /\ totalScrapedCount' = resetOutcome.totalScrapedCount
    /\ totalPushedCount' = resetOutcome.totalPushedCount
    /\ scrapedListingIds' = resetOutcome.scrapedListingIds
    /\ pure' = [pure EXCEPT !.count = @ + 1]
    /\ UNCHANGED <<queue, queueKeys, tasks, dataset, proc, hist>>

NextReset == Next \/ resetScrapedCount

SpecReset == InitReset /\ [][NextReset]_vars

\* C16: every step of a SEARCH or DETAIL task leaves the seen-set a superset
\* of what it was and lowers neither scrapedCount nor pushedCount; a step
\* of the explicit reset sets both counters to 0 and the seen-set to empty.
C16_MonotoneUntilReset ==
    [][/\ pure' = pure =>
            /\ scrapedListingIds \subseteq scrapedListingIds'
            /\ totalScrapedCount' >= totalScrapedCount
            /\ totalPushedCount' >= totalPushedCount
       /\ pure' # pure =>
            /\ totalScrapedCount' = 0
            /\ totalPushedCount' = 0
            /\ scrapedListingIds' = {}]_vars

\* C16, the case: the reset ran after a record had been emitted and counted,
\* and the counters and the seen-set are back at their initial values.
C16_ResetAfterEmission ==
    /\ pure.fn = "reset" /\ pure.count = 1
    /\ \E x \in Modes \X Ids : dataset[x] > 0
    /\ totalScrapedCount = 0 /\ totalPushedCount = 0 /\ scrapedListingIds = {}


(***************************************************************************)
(* extractListingDetails (extractors.ts:341-1165) as the sequence of its   *)
(* page operations, each of which resolves or fails.  A URL is modelled by *)
(* its host, the id after /rooms/ (0: no such path) and whether it has a   *)
(* query string.                                                           *)
(***************************************************************************)
PageUrls ==
    {[host |-> h, room |-> r, query |-> q] :
        h \in {"airbnb.com", "www.airbnb.com"}, r \in 0..1, q \in BOOLEAN}

\* lines 348-349
cleanedUrl(rawUrl) ==
    IF rawUrl.room # 0
    THEN [host |-> "www.airbnb.com", room |-> rawUrl.room, query |-> FALSE]
    ELSE rawUrl

\* lines 350-363: the record before the try; id 0 is null, title "null" is null
initialData(rawUrl) ==
    [id |-> cleanedUrl(rawUrl).room, url |-> cleanedUrl(rawUrl),
     title |-> "null", images |-> 0, reviews |-> 0]

\* The awaited page operations of lines 370-422, in order, with what the
\* code does when one fails: "ignore" (.catch(() => {}) at 374, 376, 382 and
\* the inner catch at 385) or "catch" (the outer catch at 1161).
PageOps ==
    << [op |-> "waitForFunction",  kind |-> "wait",     onFail |-> "ignore"],   \* 370
       [op |-> "waitForLoadState", kind |-> "wait",     onFail |-> "ignore"],   \* 376
       [op |-> "$",                kind |-> "click",    onFail |-> "ignore"],   \* 380
       [op |-> "click",            kind |-> "click",    onFail |-> "ignore"],   \* 382
       [op |-> "waitForTimeout",   kind |-> "wait",     onFail |-> "ignore"],   \* 383
       [op |-> "scroll",           kind |-> "scroll",   onFail |-> "catch"],    \* 388
       [op |-> "waitForTimeout",   kind |-> "wait",     onFail |-> "catch"],    \* 415
       [op |-> "scrollTop",        kind |-> "scroll",   onFail |-> "catch"],    \* 418
       [op |-> "waitForTimeout",   kind |-> "wait",     onFail |-> "catch"],    \* 419
       [op |-> "extract",          kind |-> "evaluate", onFail |-> "catch"] >>  \* 422

ShowMoreQuery == 3      \* index of page.$ (line 380) in PageOps
AfterShowMore == 6      \* index of the first operation after the inner try
ExtractOp == Len(PageOps)

\* what the in-page extraction returns for title and images (lines 423-1141)
ExtractedData ==
    {[title |-> ti, images |-> n] : ti \in {"null", "listing", "Airbnb"}, n \in 0..1}

\* lines 1144-1153: Object.assign and the generic-title check
mergeExtracted(data, extracted) ==
    [data EXCEPT !.title = IF extracted.title = "Airbnb" THEN "null" ELSE extracted.title,
                 !.images = extracted.images]

ExtractCalls ==
    {[fn |-> "details", pc |-> 0, rawUrl |-> u, data |-> initialData(u),
      failed |-> {}, result |-> "pending"] : u \in PageUrls}

InitExtract == CrawlInit({}, Infinity) /\ pure \in ExtractCalls

\* page.url() moved inside the try
ReadUrlInsideTry(ok) ==
    /\ pure.fn = "details" /\ pure.pc = 0
    /\ pure' = IF ok THEN [pure EXCEPT !.pc = 1]
               ELSE [pure EXCEPT !.pc = -1, !.failed = {0}, !.result = "returned"]
    /\ UNCHANGED crawlVars

\* line 347: page.url(), before the try; failed holds the indices in PageOps
\* of the operations that failed, 0 for page.url()
ReadUrl(ok) ==
    /\ pure.fn = "details" /\ pure.pc = 0
    /\ pure' = IF ok THEN [pure EXCEPT !.pc = 1]
               ELSE [pure EXCEPT !.pc = -1, !.failed = {0}, !.result = "threw"]
    /\ UNCHANGED crawlVars

\* lines 370-419: one awaited operation before the extraction
PageOp(ok, found) ==
    /\ pure.fn = "details" /\ pure.pc \in 1..(ExtractOp - 1)
    /\ LET step == PageOps[pure.pc]
           next == IF pure.pc = ShowMoreQuery /\ ~(ok /\ found) THEN AfterShowMore
                   ELSE IF pure.pc < AfterShowMore /\ pure.pc > ShowMoreQuery /\ ~ok
                        THEN AfterShowMore
                   ELSE pure.pc + 1
       IN pure' = IF ok THEN [pure EXCEPT !.pc = next]
                  ELSE IF step.onFail = "ignore"
                       THEN [pure EXCEPT !.pc = next, !.failed = @ \cup {pure.pc}]
                  ELSE [pure EXCEPT !.pc = -1, !.failed = @ \cup {pure.pc},
                                    !.result = "returned"]
    /\ UNCHANGED crawlVars

\* lines 422-1159: the extraction resolved and its result is merged
ExtractResolved(extracted) ==
    /\ pure.fn = "details" /\ pure.pc = ExtractOp
    /\ pure' = [pure EXCEPT !.pc = -1, !.result = "returned",
                            !.data = mergeExtracted(@, extracted)]
    /\ UNCHANGED crawlVars

\* lines 422, 1161-1164: the extraction rejected
ExtractRejected ==
    /\ pure.fn = "details" /\ pure.pc = ExtractOp
    /\ pure' = [pure EXCEPT !.pc = -1, !.result = "returned",
                            !.failed = @ \cup {ExtractOp}]
    /\ UNCHANGED crawlVars

NextExtract ==
    \/ \E ok \in BOOLEAN : ReadUrl(ok)
    \/ \E ok \in BOOLEAN, found \in BOOLEAN : PageOp(ok, found)
    \/ \E extracted \in ExtractedData : ExtractResolved(extracted)
    \/ ExtractRejected

SpecExtract == InitExtract /\ [][NextExtract]_vars

C18_DomFallbackAfterFailedEvaluation ==
    (pure.fn = "details" /\ pure.pc = -1 /\ ExtractOp \in pure.failed) =>
        /\ pure.result = "returned"
        /\ pure.data.url = pure.rawUrl
        /\ pure.data.title = "listing"

\* C18, the case of the test: the page is at airbnb.com/rooms/<id>, the
\* evaluation rejected, and the record has the www.airbnb.com url and no title.
C18_EvaluationFailedNoTitle ==
    /\ pure.fn = "details" /\ pure.result = "returned"
    /\ pure.failed = {ExtractOp}
    /\ pure.rawUrl = [host |-> "airbnb.com", room |-> 1, query |-> FALSE]
    /\ pure.data.url.host = "www.airbnb.com"
    /\ pure.data.title = "null"


(***************************************************************************)
(* The entry of the SEARCH handler (dataStore.ts:120-145) for every kind   *)
(* of maxListings the input can carry (Undefined stands for an absent and  *)
(* for a null value) and every crawl state the handler can start in.       *)
(***************************************************************************)
EntryCaps == {Undefined, -2, 0, 1, 2}

EntryInput(n) == Input(n, TRUE, FALSE, 9, "undefined", {})

InitEntry ==
    \E n \in EntryCaps, seen \in SUBSET Ids :
        \E count \in 0..Cardinality(seen) :
            /\ totalScrapedCount = count
            /\ totalPushedCount = count
            /\ scrapedListingIds = seen
            /\ queue = startRequests(EntryInput(n))
            /\ queueKeys = {r.key : r \in queue}
            /\ tasks = {}
            /\ dataset = [x \in Modes \X Ids |-> IF x[1] = "simple" /\ x[2] \in seen THEN 1 ELSE 0]
            /\ proc = "running"
            /\ hist = [kept |-> [id \in Ids |-> 0], maxListings |-> maxListings(EntryInput(n))]
            /\ pure = [fn |-> "entry", maxListings |-> n]

NextEntry == \E r \in queue : StartSearch(r)

SpecEntry == InitEntry /\ [][NextEntry]_vars

\* C19: a SEARCH task that starts when scrapedCount >= the finite cap does
\* nothing: no handler runs on, nothing is enqueued or emitted, and the
\* counters and the seen-set are unchanged; when the input's cap is absent,
\* null, 0 or negative the task always runs on to the extraction.
C19_NoOpAtCap ==
    [][\A r \in queue : (r.label = "SEARCH" /\ r \notin queue') =>
          /\ (/\ r.userData.maxListings # Undefined
              /\ r.userData.maxListings > 0
              /\ totalScrapedCount >= r.userData.maxListings) =>
                 /\ tasks' = tasks
                 /\ queue' = queue \ {r} /\ queueKeys' = queueKeys
                 /\ dataset' = dataset
                 /\ totalScrapedCount' = totalScrapedCount
                 /\ totalPushedCount' = totalPushedCount
                 /\ scrapedListingIds' = scrapedListingIds
          /\ (pure.fn = "entry" /\ (pure.maxListings = Undefined \/ pure.maxListings <= 0)) =>
                 tasks' = tasks \cup {NewTask(r, "extract")}]_vars

\* C19, the case: with cap 1 and one listing counted, a SEARCH request was
\* taken from the queue and no handler is running.
C19_RequestDroppedAtCap ==
    /\ pure.fn = "entry" /\ pure.maxListings = 1
    /\ totalScrapedCount >= 1
    /\ Cardinality(queue) < Cardinality(queueKeys)
    /\ tasks = {}


\* the charge a SEARCH visit has just called
Billing(u, count, ret) ==
    /\ u.pc = "charging"
    /\ u.chg = [eventName |-> "listing-scraped", count |-> count, ret |-> ret]

\* C20: billing of a SEARCH visit.  The duplicates of the page are billed, as
\* duplicateCount units, when the extraction returns and so before the
\* bisection decision; in fast mode one unit is billed for each listing whose
\* record was emitted and none when the emission failed; when the loop ends,
\* at the end of the slice or early at the cap, the listings it skipped
\* (already in the seen-set, or priced outside the global window) are billed
\* once, one unit each; the loop never goes beyond the cap slice.
C20_SearchBillingAccounting ==
    [][/\ \A t \in tasks : (t.req.label = "SEARCH" /\ t \notin tasks') =>
            LET succ == {u \in tasks' \ tasks : u.req = t.req}
                ud == t.req.userData
                cap == IF ud.maxListings # Undefined /\ ud.maxListings > 0
                       THEN ud.maxListings ELSE Infinity
                starts == /\ t.pc = "decide"
                          /\ ~shouldDynamicSplit(t.totalCount, ud)
                          /\ Len(t.listings) > 0
                          /\ cap - totalScrapedCount > 0
                resumes == t.pc \in {"enqWait", "kept"}
                sliceLen == IF starts THEN Min(Len(t.listings), cap - totalScrapedCount)
                            ELSE Min(Len(t.listings), t.remainingBeforeLoop)
                i0 == IF starts THEN 0 ELSE t.i
                skipped0 == IF starts THEN 0 ELSE t.skippedCount
                ends == \A u \in succ : u.pc \notin {"enqWait", "pushWait"}
                final == IF totalScrapedCount' >= cap THEN skipped0
                         ELSE skipped0 + sliceLen - i0
            IN /\ (t.pc = "extract" /\ succ # {}) =>
                     \A u \in succ :
                        IF u.duplicateCount > 0
                        THEN Billing(u, u.duplicateCount, "decide")
                        ELSE u.pc = "decide"
               /\ (t.pc = "decide" /\ ~starts) => succ = {}
               /\ t.pc = "pushWait" =>
                     /\ succ # {}
                     /\ \A u \in succ :
                           IF dataset' # dataset THEN Billing(u, 1, "kept")
                           ELSE u.pc = "kept"
               /\ ((starts \/ resumes) /\ ends) =>
                     /\ totalScrapedCount' < cap =>
                           \A j \in (i0 + 1)..sliceLen :
                              \/ t.listings[j].id \in scrapedListingIds
                              \/ OutsideGlobal(t.listings[j], ud)
                     /\ IF final > 0
                        THEN succ # {} /\ \A u \in succ : Billing(u, final, "paginate")
                        ELSE \A u \in succ : u.pc # "charging"
       /\ \A u \in tasks' : InLoop(u) =>
            /\ u.i \in 1..Min(Len(u.listings), u.remainingBeforeLoop)
            /\ u.skippedCount = u.i - Cardinality(u.kept)]_vars

\* C20, the case: a visit whose loop skipped a listing and stopped at the cap
\* is billing its skipped listings.
C20_SkipsBilledAtCap ==
    \E t \in tasks :
        /\ t.req.label = "SEARCH"
        /\ t.pc = "charging" /\ t.chg.ret = "paginate" /\ t.chg.count > 0
        /\ totalScrapedCount >= hist.maxListings


\* the listing a SEARCH task holds in its loop
Held(t) == listingsToProcess(t)[t.i].id

\* a fast-mode emission of id failed: the id was reserved by a visit that
\* enqueued no DETAIL request for it, no record of it was pushed by a SEARCH
\* visit, and no visit is still waiting for its pushData
EmissionFailed(id) ==
    /\ hist.kept[id] > 0
    /\ RoomKey(id) \notin queueKeys
    /\ dataset[<<"simple", id>>] = 0
    /\ \A t \in tasks : (InLoop(t) /\ Held(t) = id) => t.pc = "kept"

\* C21: in fast mode a record whose emission fails is dropped: it is not
\* billed, its id stays in the seen-set, the handler goes on with the next
\* listing of the page and the run continues; and the id is never emitted
\* later in the run.
C21_FailedEmissionDropped ==
    [][/\ \A t \in tasks : (t.pc = "pushWait" /\ t \notin tasks' /\ dataset' = dataset) =>
            /\ \E u \in tasks' : u.req = t.req /\ u.pc = "kept" /\ u.i = t.i
            /\ Held(t) \in scrapedListingIds'
            /\ proc' = proc
       /\ \A t \in tasks : (t.pc = "kept" /\ t \notin tasks') =>
            /\ proc' = proc
            /\ \A u \in tasks' : u.req = t.req => (u.i > t.i \/ ~InLoop(u))
       /\ \A id \in Ids : EmissionFailed(id) =>
            /\ id \in scrapedListingIds'
            /\ Emitted(id)' = Emitted(id)]_vars

\* C21, the case: the emission of listing 3 failed in a fast-mode visit and
\* a record of listing 3 is in the output.
C21_EmittedAfterFailure ==
    EmissionFailed(3) /\ dataset[<<"deep", 3>>] > 0


(***************************************************************************)
(* Pagination of one chain of SEARCH pages (dataStore.ts:236-246 and       *)
(* 375-555).  A page yields n listings; scrapedCount is below the cap      *)
(* after its loop or not; the Next control of the page is what the         *)
(* evaluate of lines 401-446 returns.  The cursor parameter of a URL is    *)
(* absent, not decodable, or the base64 of a JSON object with or without   *)
(* an items_offset.                                                        *)
(***************************************************************************)
MaxOffset == 5          \* a chain stops once its offset exceeds MaxOffset

\* lines 401-446: nextPageInfo for a link, a button, or no Next control
NextPageInfos ==
    {[found |-> TRUE, href |-> h, needsClick |-> FALSE, isDisabled |-> d] :
        h \in BOOLEAN, d \in BOOLEAN}
    \cup {[found |-> TRUE, href |-> FALSE, needsClick |-> TRUE, isDisabled |-> d] :
        d \in BOOLEAN}
    \cup {[found |-> FALSE, href |-> FALSE, needsClick |-> FALSE, isDisabled |-> FALSE]}

\* the branches of lines 449-554 with the cursor tried first
nextPageBranchCursorFirst(info) ==
    IF info.isDisabled THEN "disabled" ELSE "cursor"

\* lines 449, 472, 496, 499: the branch taken
nextPageBranch(info) ==
    IF info.found /\ info.href /\ ~info.isDisabled THEN "href"
    ELSE IF info.found /\ info.needsClick /\ ~info.isDisabled THEN "click"
    ELSE IF info.isDisabled THEN "disabled"
    ELSE "cursor"

AbsentCursor == [kind |-> "absent", items_offset |-> Undefined]
Cursors ==
    {AbsentCursor, [kind |-> "garbage", items_offset |-> Undefined],
     [kind |-> "json", items_offset |-> Undefined]}
    \cup {[kind |-> "json", items_offset |-> o] : o \in 0..1}

\* lines 505-515: the offset decoded from the cursor parameter
currentItemsOffset(cursor) ==
    IF cursor.kind = "json" /\ cursor.items_offset # Undefined
    THEN cursor.items_offset ELSE 0

\* the synthesized offset without the page's item count
nextItemsOffsetSame(cursor, n) == currentItemsOffset(cursor)

\* lines 517-518: itemsPerPage and nextItemsOffset
nextItemsOffset(cursor, n) == currentItemsOffset(cursor) + (IF n > 0 THEN n ELSE 20)

\* lines 520-527: the cursor parameter of the synthesized URL
newCursor(offset) == [kind |-> "json", items_offset |-> offset]

InitPaginate ==
    /\ CrawlInit({}, Infinity)
    /\ pure \in {[fn |-> "paginate", pc |-> "page", cursor |-> c, chain |-> <<>>,
                  n |-> 0, below |-> FALSE, read |-> FALSE,
                  info |-> [found |-> FALSE, href |-> FALSE, needsClick |-> FALSE, isDisabled |-> FALSE], clicked |-> FALSE,
                  enqueued |-> 0, source |-> "none"] : c \in Cursors}

\* lines 177-376: the page of the chain is visited: an empty page returns at
\* line 245, a page whose loop ends at the cap returns at line 376
PageVisited(n, below) ==
    /\ pure.fn = "paginate" /\ pure.pc = "page"
    /\ pure' = [pure EXCEPT !.n = n, !.below = below, !.enqueued = 0, !.source = "none",
                            !.read = FALSE, !.clicked = FALSE,
                            !.pc = IF n > 0 /\ below THEN "next" ELSE "returned"]
    /\ UNCHANGED crawlVars

\* lines 401-554: the Next control is read and one branch runs; the click of
\* line 477 succeeds or throws
NextPageEnqueued(info, clickOk) ==
    /\ pure.fn = "paginate" /\ pure.pc = "next"
    /\ LET branch == nextPageBranch(info)
           offset == nextItemsOffset(pure.cursor, pure.n)
           seen == [pure EXCEPT !.info = info, !.read = TRUE]
       IN pure' = CASE branch = "href" ->
                         [seen EXCEPT !.enqueued = @ + 1, !.source = "href",
                                      !.pc = "returned"]
                    [] branch = "click" /\ clickOk ->
                         [seen EXCEPT !.enqueued = @ + 1, !.source = "click",
                                      !.clicked = TRUE, !.pc = "returned"]
                    [] branch = "cursor" ->
                         [seen EXCEPT !.enqueued = @ + 1, !.source = "cursor",
                                      !.chain = Append(@, currentItemsOffset(pure.cursor)),
                                      !.cursor = newCursor(offset),
                                      !.pc = IF offset <= MaxOffset THEN "page"
                                             ELSE "returned"]
                    [] OTHER -> [seen EXCEPT !.pc = "returned"]
    /\ UNCHANGED crawlVars

NextPaginate ==
    \/ \E n \in 0..MaxPageLen, below \in BOOLEAN : PageVisited(n, below)
    \/ \E info \in NextPageInfos, clickOk \in BOOLEAN : NextPageEnqueued(info, clickOk)

SpecPaginate == InitPaginate /\ [][NextPaginate]_vars


C23_OffsetsStrictlyIncrease ==
    [][pure.fn = "paginate" =>
        /\ (pure.pc = "next" /\ pure'.source = "cursor") =>
              LET decoded == IF pure.cursor.kind = "json"
                                /\ pure.cursor.items_offset # Undefined
                             THEN pure.cursor.items_offset ELSE 0
              IN /\ pure.n >= 1
                 /\ pure'.cursor = [kind |-> "json", items_offset |-> decoded + pure.n]
                 /\ pure'.chain = Append(pure.chain, decoded)
        /\ \A i, j \in 1..Len(pure'.chain) : i < j => pure'.chain[i] < pure'.chain[j]
        /\ \A i \in 1..Len(pure'.chain) : pure'.chain[i] < pure'.cursor.items_offset]_vars

\* C23, the case: from an undecodable cursor a chain of three synthesized
\* pages was visited at offsets 0, 2 and 3.
C23_ChainOfThree ==
    /\ pure.fn = "paginate"
    /\ pure.chain = <<0, 2, 3>>
    /\ pure.cursor.items_offset > 3


\* C24: a SEARCH visit that finds a block marker fails before any
\* extraction and leaves the crawl state as it was: no id reserved, no
\* counter changed, nothing billed, emitted or enqueued (the crawler may put
\* the same request back for its retry); a visit without a block marker
\* goes on to the extraction.
C24_BlockedVisitChangesNothing ==
    [][\A t \in tasks : (t.req.label = "SEARCH" /\ t.pc = "extract" /\ t \notin tasks') =>
          LET succ == {u \in tasks' \ tasks : u.req = t.req}
          IN IF succ = {}
             THEN /\ tasks' = tasks \ {t}
                  /\ queue' \ queue \subseteq {[t.req EXCEPT !.retryCount = @ + 1]}
                  /\ queue \subseteq queue'
                  /\ queueKeys' = queueKeys
                  /\ dataset' = dataset
                  /\ scrapedListingIds' = scrapedListingIds
                  /\ totalScrapedCount' = totalScrapedCount
                  /\ totalPushedCount' = totalPushedCount
                  /\ proc' = proc
             ELSE \A u \in succ : u.pc \in {"decide", "charging"}]_vars

\* C24, the case: the only SEARCH request of the run was taken, its visit
\* has ended, and the crawl state is the initial one.
C24_VisitLeftNoTrace ==
    /\ pure = NoPure
    /\ Cardinality(queueKeys) = 1 /\ queue = {} /\ tasks = {}
    /\ \A k \in queueKeys : k.kind = "searchUrl"
    /\ totalScrapedCount = 0 /\ totalPushedCount = 0 /\ scrapedListingIds = {}
    /\ \A x \in Modes \X Ids : dataset[x] = 0


\* C25: a DETAIL visit whose extractor returns no id, or whose extraction,
\* assembly or emission throws, ends normally: nothing is emitted or billed
\* for it, the run goes on, and scrapedCount, pushedCount and the seen-set
\* are unchanged; pushedCount grows by exactly one with each record the
\* handler emits.
C25_DetailFailuresAreSilent ==
    [][\A t \in tasks : (t.req.label = "DETAIL" /\ t \notin tasks') =>
          LET succ == {u \in tasks' \ tasks : u.req = t.req}
          IN /\ (t.pc \in {"dExtract", "dPushWait"} /\ succ = {}) =>
                   /\ tasks' = tasks \ {t}
                   /\ dataset' = dataset
                   /\ queue' = queue /\ queueKeys' = queueKeys
                   /\ totalPushedCount' = totalPushedCount
                   /\ proc' = proc
             /\ (t.pc = "dPushWait" /\ succ # {}) =>
                   /\ dataset' = [dataset EXCEPT ![<<"deep", t.req.room>>] = @ + 1]
                   /\ totalPushedCount' = totalPushedCount + 1
                   /\ \A u \in succ : Billing(u, 1, "dAddOns")
             /\ t.pc # "dPushWait" =>
                   (dataset' = dataset /\ totalPushedCount' = totalPushedCount)
             /\ totalScrapedCount' = totalScrapedCount
             /\ scrapedListingIds' = scrapedListingIds]_vars

\* C25, the case: the DETAIL visit of the start URL of room 3 has ended
\* without a record of room 3, and the run goes on.
C25_DetailEndedWithoutRecord ==
    /\ pure = NoPure /\ proc = "running"
    /\ StartUrlKey(3) \in queueKeys
    /\ \A r \in queue : r.key # StartUrlKey(3)
    /\ \A t \in tasks : t.req.key # StartUrlKey(3)
    /\ dataset[<<"deep", 3>>] = 0
    /\ tasks # {}


\* C26: every record the DETAIL handler emits belongs to a listing that a
\* SEARCH visit found and counted in scrapedCount, so pushedCount <=
\* scrapedCount in every reachable state.
C26_PushedWithinScraped ==
    /\ totalPushedCount <= totalScrapedCount
    /\ \A id \in Ids : dataset[<<"deep", id>>] > 0 => hist.kept[id] > 0

\* C26, the case: the DETAIL visit of a start URL has emitted room 3, which
\* no SEARCH visit has found, and pushedCount is 1 with scrapedCount 0.
C26_StartUrlPushedUncounted ==
    /\ dataset[<<"deep", 3>>] = 1 /\ hist.kept[3] = 0
    /\ totalPushedCount = 1 /\ totalScrapedCount = 0


\* C27: the two children of every bisection are non-empty, disjoint, each
\* strictly narrower than the parent, and together exactly the parent's
\* range, so along any sequence of bisections the leaves partition the
\* integer prices of the root range; the children keep the parent's global
\* window and start without a pagination cursor.
C27_BisectionPartitions ==
    [][(pure.fn = "split" /\ pure'.userData # pure.userData) =>
          LET ud == pure.userData
              lo == IF ud.minPrice = Undefined THEN DefaultMinPrice ELSE ud.minPrice
              hi == IF ud.maxPrice = Undefined THEN DefaultMaxPrice ELSE ud.maxPrice
              s1 == shard1(ud)
              s2 == shard2(ud)
          IN /\ pure'.userData \in {s1, s2}
             /\ s1.minPrice = lo /\ s2.maxPrice = hi
             /\ s2.minPrice = s1.maxPrice + 1
             /\ s1.minPrice <= s1.maxPrice /\ s2.minPrice <= s2.maxPrice
             /\ s1.maxPrice - s1.minPrice < hi - lo
             /\ s2.maxPrice - s2.minPrice < hi - lo
             /\ \A price \in lo..hi :
                   (price \in s1.minPrice..s1.maxPrice)
                      # (price \in s2.minPrice..s2.maxPrice)
             /\ s1.globalMinPrice = ud.globalMinPrice
             /\ s1.globalMaxPrice = ud.globalMaxPrice
             /\ s2.globalMinPrice = ud.globalMinPrice
             /\ s2.globalMaxPrice = ud.globalMaxPrice
             /\ pure'.page = 0]_vars

\* C27, the case: after two bisections of the root [0, 999] the leaf
\* [250, 499] is processed.
C27_LeafAfterTwoBisections ==
    /\ pure.fn = "split" /\ pure.pc = "processed"
    /\ pure.userData.minPrice = 250 /\ pure.userData.maxPrice = 499
    /\ pure.userData.splitDepth = 2
    /\ pure.userData.globalMinPrice = 0 /\ pure.userData.globalMaxPrice = 999


(***************************************************************************)
(* The uniqueKeys of bisection children across the SEARCH visits of a run  *)
(* with two location queries (part_001:256-310, dataStore.ts:225-228).  A  *)
(* parent visit is the query and the page of its URL and its userData; a   *)
(* child task is the query and userData of the request built for it, and   *)
(* the uniqueKey it is given.                                              *)
(***************************************************************************)
Queries == {"London", "Paris"}

BisectingParents ==
    {[query |-> q, page |-> p, userData |-> SplitUserData(w)] :
        q \in Queries, p \in 0..MaxPage, w \in {<<0, 999>>, <<0, 21>>, <<5, 25>>}}

\* dataStore.ts:204-228: the two requests handed to crawler.addRequests
bisectionChildren(parent) ==
    {[query |-> parent.query, userData |-> s,
      key |-> SplitShardKey(s.minPrice, s.maxPrice, s.splitDepth)] :
        s \in {shard1(parent.userData), shard2(parent.userData)}}

InitKeys ==
    /\ CrawlInit({}, Infinity)
    /\ \E a, b \in BisectingParents :
          /\ a # b
          /\ pure = [fn |-> "keys", pending |-> {a, b}, built |-> {},
                     accepted |-> {}, keys |-> {}]

\* a pending parent visit bisects; the queue accepts the children whose
\* uniqueKey it has not seen
KeysBisect(parent) ==
    /\ pure.fn = "keys" /\ parent \in pure.pending
    /\ LET children == bisectionChildren(parent)
       IN pure' = [pure EXCEPT
                      !.pending = @ \ {parent},
                      !.built = @ \cup children,
                      !.accepted = @ \cup {c \in children : c.key \notin pure.keys},
                      !.keys = @ \cup {c.key : c \in children}]
    /\ UNCHANGED crawlVars

SpecKeys == InitKeys /\ [][\E parent \in BisectingParents : KeysBisect(parent)]_vars

\* C28: the two children of every bisection are accepted by the queue as
\* new tasks: distinct child tasks, of different location queries or of
\* different parent URLs, never have the same uniqueKey.
C28_ChildKeysDistinct ==
    pure.fn = "keys" =>
        /\ pure.accepted = pure.built
        /\ \A c, d \in pure.built : c.key = d.key => c = d

\* C28, the case: London and Paris were both bisected on [0, 21] and only
\* London's children are in the queue.
C28_ParisChildrenSuppressed ==
    /\ pure.fn = "keys" /\ pure.pending = {}
    /\ \E c \in pure.built : c.query = "Paris" /\ c.userData.maxPrice = 10
    /\ \E c \in pure.built : c.query = "London" /\ c.userData.maxPrice = 10
    /\ \A c \in pure.accepted : c.query = "London"

\* ---------------------------------------------------------------------
\* generatePriceShards, one loop iteration at a time (part_001:100-113),
\* with the step main() hands it (part_001:121-123)
\* ---------------------------------------------------------------------
MaxLoopWidth == 3       \* shard loop: maxPrice - minPrice in 1..MaxLoopWidth
MaxLoopShards == 6      \* shard loop: the shards array holds this many entries
defaultStep == 5        \* const defaultStep = 5

\* input.priceShardingStep ?? Math.ceil(defaultStep * currencyMultiplier)
priceShardingStep(inputStep, currencyMultiplier) ==
    IF inputStep = Undefined THEN defaultStep * currencyMultiplier ELSE inputStep

InputSteps == {Undefined, -2, 0, 1, 2}

\* the calls main() makes when shouldShard holds (maxPrice > minPrice)
LoopCalls ==
    {[fn |-> "shardLoop", pc |-> "loop", minPrice |-> lo, maxPrice |-> lo + w,
      step |-> priceShardingStep(st, m), price |-> lo, shards |-> <<>>] :
        lo \in 0..MaxShardStart, w \in 1..MaxLoopWidth, st \in InputSteps, m \in 1..2}

InitLoop == CrawlInit({}, Infinity) /\ pure \in LoopCalls

\* one iteration: price <= maxPrice, shards.push({min, max}), price += step
ShardPushed ==
    /\ pure.fn = "shardLoop" /\ pure.pc = "loop"
    /\ pure.price <= pure.maxPrice
    /\ Len(pure.shards) < MaxLoopShards
    /\ pure' = [pure EXCEPT
                   !.shards = Append(@, [min |-> pure.price,
                                         max |-> Min(pure.price + pure.step - 1, pure.maxPrice)]),
                   !.price = @ + pure.step]
    /\ UNCHANGED crawlVars

\* the loop condition fails: return shards
ShardLoopReturned ==
    /\ pure.fn = "shardLoop" /\ pure.pc = "loop"
    /\ pure.price > pure.maxPrice
    /\ pure' = [pure EXCEPT !.pc = "returned"]
    /\ UNCHANGED crawlVars

\* shards.push on an array the heap cannot grow any further: the process
\* aborts and the function never returns
ShardHeapExhausted ==
    /\ pure.fn = "shardLoop" /\ pure.pc = "loop"
    /\ pure.price <= pure.maxPrice
    /\ Len(pure.shards) = MaxLoopShards
    /\ pure' = [pure EXCEPT !.pc = "aborted"]
    /\ UNCHANGED crawlVars

NextLoop == ShardPushed \/ ShardLoopReturned \/ ShardHeapExhausted

\* the loop is straight-line code: it always takes its next step
SpecLoop == InitLoop /\ [][NextLoop]_vars /\ WF_vars(NextLoop)

\* C29: for every price range and every integer step main() can pass,
\* zero and negative steps included, generatePriceShards eventually
\* returns, and the list it returns is finite (at most one shard per
\* price of the range).
C29_ShardLoopTerminates ==
    <>(pure.fn = "shardLoop" => /\ pure.pc = "returned"
                                /\ Len(pure.shards) <= pure.maxPrice - pure.minPrice + 1)

\* C29, the case: with step 0 the price never leaves minPrice, every
\* iteration pushes the same shard and the loop ends only by abort.
C29_ZeroStepNeverReturns ==
    /\ pure.fn = "shardLoop" /\ pure.pc = "aborted" /\ pure.step = 0
    /\ pure.price = pure.minPrice
    /\ \A k \in 1..Len(pure.shards) : pure.shards[k] = pure.shards[1]

\* ---------------------------------------------------------------------
\* The crawl under the crawler's scheduling: as long as a request is
\* queued or a handler is suspended, the pool runs one of them
\* (part_001:406, crawler.run resolves when the queue is empty and no
\* handler is running)
\* ---------------------------------------------------------------------
\* fast runs with maxListings = 1: over the single window [0,9] with a room
\* start URL, and over the shards [0,11] and [12,22] (priceShardingStep 12),
\* the first of them wide enough to bisect
DrainInputs ==
    {Input(1, TRUE, FALSE, 9, "false", {3}),
     [Input(1, TRUE, FALSE, 22, "undefined", {}) EXCEPT !.priceShardingStep = 12]}

InitDrain ==
    /\ \E input \in DrainInputs : CrawlInit(startRequests(input), maxListings(input))
    /\ pure = NoPure

SpecDrain == InitDrain /\ [][Next]_vars /\ WF_vars(Next)

\* totalScrapedCount has reached a finite cap
AtCap == hist.maxListings < Infinity /\ totalScrapedCount >= hist.maxListings

\* crawler.run has resolved, or chargeOrAbort has ended the process
Drained == (queue = {} /\ tasks = {}) \/ proc = "exited"

\* what every step taken at the cap keeps to: kinds are the requests a
\* handler may add; the crawler's retry of a request whose handler threw
\* is no request of the handler's
DrainStep(kinds) ==
    AtCap =>
        /\ \A r \in queue \ queue' : r.label = "SEARCH" => tasks' = tasks
        /\ \A r \in queue' \ queue :
               /\ r.label = "SEARCH"
               /\ \/ r.key.kind \in kinds
                  \/ \E t \in tasks \ tasks' : r = [t.req EXCEPT !.retryCount = @ + 1]
        /\ \A u \in tasks' \ tasks : u.pc # "pagWait"
        /\ \A t \in tasks \ tasks' : t.req.label = "DETAIL" => queue' = queue

====
